---- MODULE Spec2Model ----
(***************************************************************************)
(* Model of netopeer2's ietf-netconf-server callbacks                      *)
(* (src/server/netconf_server.c): the sysrepo change handlers that project *)
(* configuration change events onto the libnetconf2 live server state, and *)
(* the host-key callback.                                                  *)
(*                                                                         *)
(* One handler invocation is  OpenScan ; ScanEvent* ; CloseScan .  Each    *)
(* ScanEvent step is one turn of the handler's while loop, every live call *)
(* it makes included.  The live server (libnetconf2) and the change        *)
(* iterator (sysrepo) are collaborators: their calls may fail.             *)
(***************************************************************************)
EXTENDS Integers, Sequences, FiniteSets, TLC

VARIABLES live, cfg, run, scans, ret, iters, last, hist, rec, clean, dflt, hk, ak, pk

vars == <<live, cfg, run, scans, ret, iters, last, hist, rec, clean, dflt, hk, ak, pk>>

(***************************************************************************)
(* Bounds of the model.                                                    *)
(***************************************************************************)
\* events one scan delivers at most
MaxEvents == 5
\* events a nested scan (keepalive / periodic parameters) delivers at most
MaxNested == 2
\* handler invocations in one behaviour at most
MaxScans == 2

(***************************************************************************)
(* Names.                                                                  *)
(***************************************************************************)
NoClient == "NULL"
ClientNames == {"c1", "c2"}
EndptNames == {"ep1", "ep2"}
KeyNames == {"k1", "k2", "k3"}
\* a listen endpoint is <<NoClient, e>>, a call-home client endpoint <<c, e>>
ListenIds == {<<NoClient, e>> : e \in EndptNames}
ChIds == {<<c, e>> : c \in ClientNames, e \in {"ep1"}}
EpIds == ListenIds \cup ChIds
\* first-child value of an ancestor that is no list entry
Junk == "?"
\* the values of the numeric leaves (none of them a default)
NumVals == {101, 102}
StrVals == {"a1", "a2"}

SR_OP_CREATED == "created"
SR_OP_MODIFIED == "modified"
SR_OP_DELETED == "deleted"
SR_OP_MOVED == "moved"

SR_ERR_OK == "SR_ERR_OK"
SR_ERR_INTERNAL == "SR_ERR_INTERNAL"
SR_ERR_NOMEM == "SR_ERR_NOMEM"
\* what sr_get_changes_iter / sr_get_change_tree_next report on a hard error
IterErrs == {"SR_ERR_INTERNAL", "SR_ERR_SYS"}

NC_SSH_AUTH_PUBLICKEY == 1
NC_SSH_AUTH_PASSWORD == 2
NC_SSH_AUTH_INTERACTIVE == 4
AllAuth == NC_SSH_AUTH_PUBLICKEY + NC_SSH_AUTH_PASSWORD + NC_SSH_AUTH_INTERACTIVE

\* auth | bit   and   auth & ~bit   on the three-bit mask
HasBit(auth, bit) == bit # 0 /\ (auth \div bit) % 2 = 1
SetBit(auth, bit) == IF HasBit(auth, bit) THEN auth ELSE auth + bit
ClearBit(auth, bit) == IF HasBit(auth, bit) THEN auth - bit ELSE auth

(***************************************************************************)
(* The live server state (libnetconf2), reached only through its API.      *)
(***************************************************************************)
Absent == [present |-> FALSE]

\* an endpoint as nc_server_add_endpt / nc_server_ch_client_add_endpt leave it:
\* the transport enables every authentication method by default
NewEndpt ==
    [present |-> TRUE, hostkeys |-> <<>>, auth |-> AllAuth,
     address |-> "", port |-> 0, ka |-> FALSE,
     idle_time |-> 1, max_probes |-> 10, probe_interval |-> 5,
     auth_timeout |-> 30, auth_attempts |-> 3]

NewClient ==
    [present |-> TRUE, dispatched |-> FALSE, conn_type |-> "NC_CH_PERSIST",
     period |-> 60, anchor_time |-> 0, idle_timeout |-> 120,
     start_with |-> "NC_CH_FIRST_LISTED", max_attempts |-> 3]

\* the result of a live call
Ok(L) == [ok |-> TRUE, L |-> L]
Fail(L) == [ok |-> FALSE, L |-> L]

EpPresent(L, c, e) ==
    /\ <<c, e>> \in EpIds
    /\ L.ep[<<c, e>>].present
    /\ (c # NoClient => L.ch[c].present)

SetEp(L, c, e, r) == [L EXCEPT !.ep[<<c, e>>] = r]

nc_server_add_endpt(L, c, e, fault) ==
    IF fault \/ <<c, e>> \notin EpIds \/ L.ep[<<c, e>>].present
       \/ (c # NoClient /\ ~L.ch[c].present)
    THEN Fail(L)
    ELSE Ok(SetEp(L, c, e, NewEndpt))

nc_server_del_endpt(L, c, e, fault) ==
    IF fault \/ ~EpPresent(L, c, e) THEN Fail(L)
    ELSE Ok(SetEp(L, c, e, Absent))

nc_server_ssh_endpt_get_auth_methods(L, c, e) ==
    IF EpPresent(L, c, e) THEN L.ep[<<c, e>>].auth ELSE 0

nc_server_ssh_endpt_set_auth_methods(L, c, e, auth, fault) ==
    IF fault \/ ~EpPresent(L, c, e) THEN Fail(L)
    ELSE Ok([L EXCEPT !.ep[<<c, e>>].auth = auth])

IndexOf(s, x) ==
    IF \E i \in 1..Len(s) : s[i] = x
    THEN CHOOSE i \in 1..Len(s) : s[i] = x /\ \A j \in 1..(i - 1) : s[j] # x
    ELSE 0

RemoveAt(s, i) == [j \in 1..(Len(s) - 1) |-> IF j < i THEN s[j] ELSE s[j + 1]]

InsertAt(s, i, x) ==
    [j \in 1..(Len(s) + 1) |-> IF j < i THEN s[j] ELSE IF j = i THEN x ELSE s[j - 1]]

\* idx = -1: the key goes to the end of the array
nc_server_ssh_endpt_add_hostkey(L, c, e, name, idx, fault) ==
    IF fault \/ ~EpPresent(L, c, e) THEN Fail(L)
    ELSE LET hks == L.ep[<<c, e>>].hostkeys
             at == IF idx = -1 \/ idx > Len(hks) THEN Len(hks) + 1 ELSE idx + 1
         IN Ok([L EXCEPT !.ep[<<c, e>>].hostkeys = InsertAt(hks, at, name)])

\* idx = -1: the key is found by its name
nc_server_ssh_endpt_del_hostkey(L, c, e, name, idx, fault) ==
    IF fault \/ ~EpPresent(L, c, e) THEN Fail(L)
    ELSE LET hks == L.ep[<<c, e>>].hostkeys
             at == IF idx = -1 THEN IndexOf(hks, name) ELSE idx + 1
         IN IF at < 1 \/ at > Len(hks) THEN Fail(L)
            ELSE Ok([L EXCEPT !.ep[<<c, e>>].hostkeys = RemoveAt(hks, at)])

\* key_after = NULL (the empty string here): the key goes to the head
nc_server_ssh_endpt_mov_hostkey(L, c, e, key_mov, key_after, fault) ==
    IF fault \/ ~EpPresent(L, c, e) THEN Fail(L)
    ELSE LET hks == L.ep[<<c, e>>].hostkeys
             from == IndexOf(hks, key_mov)
         IN IF from = 0 \/ (key_after # "" /\ IndexOf(hks, key_after) = 0)
               \/ key_after = key_mov
            THEN Fail(L)
            ELSE LET rest == RemoveAt(hks, from)
                     to == IF key_after = "" THEN 1 ELSE IndexOf(rest, key_after) + 1
                 IN Ok([L EXCEPT !.ep[<<c, e>>].hostkeys = InsertAt(rest, to, key_mov)])

nc_server_set_idle_timeout(L, v) == [L EXCEPT !.idle_timeout = v]

nc_server_endpt_set_address(L, c, e, address, fault) ==
    IF fault \/ ~EpPresent(L, c, e) THEN Fail(L)
    ELSE Ok([L EXCEPT !.ep[<<c, e>>].address = address])

nc_server_endpt_set_port(L, c, e, port, fault) ==
    IF fault \/ ~EpPresent(L, c, e) THEN Fail(L)
    ELSE Ok([L EXCEPT !.ep[<<c, e>>].port = port])

nc_server_endpt_enable_keepalives(L, c, e, enable, fault) ==
    IF fault \/ ~EpPresent(L, c, e) THEN Fail(L)
    ELSE Ok([L EXCEPT !.ep[<<c, e>>].ka = (enable = 1)])

\* a parameter given as -1 is left as it is
nc_server_endpt_set_keepalives(L, c, e, idle_time, max_probes, probe_interval, fault) ==
    IF fault \/ ~EpPresent(L, c, e) THEN Fail(L)
    ELSE LET r0 == L.ep[<<c, e>>]
             r1 == IF idle_time > -1 THEN [r0 EXCEPT !.idle_time = idle_time] ELSE r0
             r2 == IF max_probes > -1 THEN [r1 EXCEPT !.max_probes = max_probes] ELSE r1
             r3 == IF probe_interval > -1
                   THEN [r2 EXCEPT !.probe_interval = probe_interval] ELSE r2
         IN Ok(SetEp(L, c, e, r3))

nc_server_ssh_endpt_set_auth_timeout(L, c, e, timeout, fault) ==
    IF fault \/ ~EpPresent(L, c, e) THEN Fail(L)
    ELSE Ok([L EXCEPT !.ep[<<c, e>>].auth_timeout = timeout])

nc_server_ssh_endpt_set_auth_attempts(L, c, e, attempts, fault) ==
    IF fault \/ ~EpPresent(L, c, e) THEN Fail(L)
    ELSE Ok([L EXCEPT !.ep[<<c, e>>].auth_attempts = attempts])

ClPresent(L, c) == c \in ClientNames /\ L.ch[c].present

nc_server_ch_add_client(L, c, fault) ==
    IF fault \/ c \notin ClientNames \/ L.ch[c].present THEN Fail(L)
    ELSE Ok([L EXCEPT !.ch[c] = NewClient])

\* the client goes with all its endpoints
nc_server_ch_del_client(L, c, fault) ==
    IF fault \/ ~ClPresent(L, c) THEN Fail(L)
    ELSE Ok([L EXCEPT !.ch[c] = Absent,
                      !.ep = [id \in EpIds |-> IF id[1] = c THEN Absent ELSE @[id]]])

\* starts the thread that keeps trying to connect to the client's endpoints
nc_connect_ch_client_dispatch(L, c, fault) ==
    IF fault \/ ~ClPresent(L, c) THEN Fail(L)
    ELSE Ok([L EXCEPT !.ch[c].dispatched = TRUE])

nc_server_ch_client_set_conn_type(L, c, type, fault) ==
    IF fault \/ ~ClPresent(L, c) THEN Fail(L)
    ELSE Ok([L EXCEPT !.ch[c].conn_type = type])

\* the periodic parameters exist only for a client of the periodic type
PeriodicClient(L, c) == ClPresent(L, c) /\ L.ch[c].conn_type = "NC_CH_PERIOD"

nc_server_ch_client_periodic_set_period(L, c, period, fault) ==
    IF fault \/ ~PeriodicClient(L, c) THEN Fail(L)
    ELSE Ok([L EXCEPT !.ch[c].period = period])

nc_server_ch_client_periodic_set_anchor_time(L, c, anchor_time, fault) ==
    IF fault \/ ~PeriodicClient(L, c) THEN Fail(L)
    ELSE Ok([L EXCEPT !.ch[c].anchor_time = anchor_time])

nc_server_ch_client_periodic_set_idle_timeout(L, c, idle_timeout, fault) ==
    IF fault \/ ~PeriodicClient(L, c) THEN Fail(L)
    ELSE Ok([L EXCEPT !.ch[c].idle_timeout = idle_timeout])

nc_server_ch_client_set_start_with(L, c, start_with, fault) ==
    IF fault \/ ~ClPresent(L, c) THEN Fail(L)
    ELSE Ok([L EXCEPT !.ch[c].start_with = start_with])

nc_server_ch_client_set_max_attempts(L, c, max_attempts, fault) ==
    IF fault \/ ~ClPresent(L, c) THEN Fail(L)
    ELSE Ok([L EXCEPT !.ch[c].max_attempts = max_attempts])

\* an yang:date-and-time string as seconds since the epoch
DateTimes == {"1970-01-01T00:01:41Z", "1970-01-01T00:01:42Z"}
nc_datetime2time(datetime) ==
    CASE datetime = "1970-01-01T00:01:41Z" -> 101
      [] datetime = "1970-01-01T00:01:42Z" -> 102
      [] OTHER -> -1

(***************************************************************************)
(* Change events (sysrepo).  An event carries the operation, the changed   *)
(* node and the previous value; of the node the handlers read the schema   *)
(* name, the value (as a string and as a number), the first child's value  *)
(* (the key of a list entry) and, through the parent links, the first      *)
(* child's value of each ancestor: anc[d] is the one d links up.           *)
(***************************************************************************)
Event(op, schema, str, num, key, prev_val, at) ==
    [op |-> op, schema |-> schema, str |-> str, num |-> num, key |-> key,
     prev_val |-> prev_val, anc |-> at.anc, owner |-> at.owner]

\* the walk, had it followed one parent link fewer
Mut_Up_OneLinkShort(ev, depth) ==
    IF depth > 1 /\ depth - 1 <= Len(ev.anc) THEN ev.anc[depth - 1] ELSE Junk

\* ((struct lyd_node_leaf_list *)node->parent-> ... ->child)->value_str
Up(ev, depth) == IF depth <= Len(ev.anc) THEN ev.anc[depth] ELSE Junk

\* the ancestors of a node `depth` links below the endpoint list entry
ListenAnc(depth, e) == [d \in 1..depth |-> IF d = depth THEN e ELSE Junk]
\* the client's list entry is two links above its endpoint's
ChAnc(depth, c, e) ==
    [d \in 1..(depth + 2) |-> IF d = depth THEN e ELSE IF d = depth + 2 THEN c ELSE Junk]
EpAnc(depth, id) ==
    IF id[1] = NoClient THEN ListenAnc(depth, id[2]) ELSE ChAnc(depth, id[1], id[2])
\* the ancestors of a node `depth` links below the client list entry
ClAnc(depth, c) == [d \in 1..depth |-> IF d = depth THEN c ELSE Junk]

\* where a node is in the tree: its ancestors and the entity it belongs to (the
\* handlers see only the ancestors)
EpAt(depth, id) == [anc |-> EpAnc(depth, id), owner |-> id]
ClAt(depth, c) == [anc |-> ClAnc(depth, c), owner |-> <<c, "">>]
TopAt(depth) == [anc |-> [d \in 1..depth |-> Junk], owner |-> <<"", "">>]

(***************************************************************************)
(* What one turn of a handler's loop yields: the live state it leaves,     *)
(* whether the handler returned in it and with which code, the iterators   *)
(* it opened and freed, and the live calls it made, in order.              *)
(***************************************************************************)
LogCall(fn, c, e, n, ok) == [fn |-> fn, c |-> c, e |-> e, n |-> n, ok |-> ok]

\* no nested scan is running
NoNest ==
    [fn |-> "none", c |-> "", e |-> "", idle_time |-> -1, max_probes |-> -1,
     probe_interval |-> -1, k |-> 0]

\* the loop goes on with the next event
Continue(L, calls) ==
    [L |-> L, done |-> FALSE, rc |-> SR_ERR_OK, opened |-> 0, freed |-> 0,
     calls |-> calls, nest |-> NoNest]

\* the handler returns rc, having freed `freed` of its iterators
Return(L, rc, freed, calls) ==
    [L |-> L, done |-> TRUE, rc |-> rc, opened |-> 0, freed |-> freed,
     calls |-> calls, nest |-> NoNest]

\* the handler is inside a nested scan, whose iterator it opened
Enter(L, calls, nest) ==
    [L |-> L, done |-> FALSE, rc |-> SR_ERR_OK, opened |-> 1, freed |-> 0,
     calls |-> calls, nest |-> nest]

\* the collaborator failures one turn of a loop may meet: its first and its
\* second live call, an allocation (asprintf), the opening of a nested iterator
NoFault == [c1 |-> FALSE, c2 |-> FALSE, mem |-> FALSE, nopen |-> ""]
Faults ==
    {[NoFault EXCEPT !.c1 = a, !.c2 = b] : a \in BOOLEAN, b \in BOOLEAN}
    \cup {[NoFault EXCEPT !.mem = TRUE]}
    \cup {[NoFault EXCEPT !.nopen = x] : x \in IterErrs}

(***************************************************************************)
(* Lifecycle handlers.                                                     *)
(***************************************************************************)
\* np2srv_endpt_ssh_cb with the mask reset issued before the endpoint is added
Mut_endpt_ssh_cb_ResetFirst(L, ev, f) ==
    LET endpt_name == Up(ev, 1) IN
    IF ev.op = SR_OP_CREATED THEN
        LET r2 == nc_server_ssh_endpt_set_auth_methods(L, NoClient, endpt_name, 0, f.c2)
            r1 == nc_server_add_endpt(r2.L, NoClient, endpt_name, f.c1)
            calls == <<LogCall("set_auth_methods", NoClient, endpt_name, 0, r2.ok),
                       LogCall("add_endpt", NoClient, endpt_name, 0, r1.ok)>>
        IN IF ~r1.ok THEN Return(r1.L, SR_ERR_INTERNAL, 1, calls)
           ELSE Continue(r1.L, calls)
    ELSE IF ev.op = SR_OP_DELETED THEN
        LET r1 == nc_server_del_endpt(L, NoClient, endpt_name, f.c1)
            calls == <<LogCall("del_endpt", NoClient, endpt_name, 0, r1.ok)>>
        IN IF ~r1.ok THEN Return(r1.L, SR_ERR_INTERNAL, 1, calls)
           ELSE Continue(r1.L, calls)
    ELSE Continue(L, <<>>)

\* np2srv_endpt_ssh_cb leaving Deleted among the operations it ignores
Mut_endpt_ssh_cb_DeletedIgnored(L, ev, f) ==
    LET endpt_name == Up(ev, 1) IN
    IF ev.op = SR_OP_CREATED THEN
        LET r1 == nc_server_add_endpt(L, NoClient, endpt_name, f.c1)
            r2 == nc_server_ssh_endpt_set_auth_methods(r1.L, NoClient, endpt_name, 0, f.c2)
            calls == <<LogCall("add_endpt", NoClient, endpt_name, 0, r1.ok),
                       LogCall("set_auth_methods", NoClient, endpt_name, 0, r2.ok)>>
        IN IF ~r1.ok THEN Return(r2.L, SR_ERR_INTERNAL, 1, calls)
           ELSE Continue(r2.L, calls)
    ELSE Continue(L, <<>>)

\* the loop body of np2srv_endpt_ssh_cb
np2srv_endpt_ssh_cb(L, ev, f) ==
    LET endpt_name == Up(ev, 1) IN
    IF ev.op = SR_OP_CREATED THEN
        LET r1 == nc_server_add_endpt(L, NoClient, endpt_name, f.c1)
            \* turn off all auth methods by default; the result is not looked at
            r2 == nc_server_ssh_endpt_set_auth_methods(r1.L, NoClient, endpt_name, 0, f.c2)
            calls == <<LogCall("add_endpt", NoClient, endpt_name, 0, r1.ok),
                       LogCall("set_auth_methods", NoClient, endpt_name, 0, r2.ok)>>
        IN IF ~r1.ok THEN Return(r2.L, SR_ERR_INTERNAL, 1, calls)
           ELSE Continue(r2.L, calls)
    ELSE IF ev.op = SR_OP_DELETED THEN
        LET r1 == nc_server_del_endpt(L, NoClient, endpt_name, f.c1)
            calls == <<LogCall("del_endpt", NoClient, endpt_name, 0, r1.ok)>>
        IN IF ~r1.ok THEN Return(r1.L, SR_ERR_INTERNAL, 1, calls)
           ELSE Continue(r1.L, calls)
    ELSE Continue(L, <<>>)

\* np2srv_ch_client_cb starting the connection attempts whatever
\* nc_server_ch_add_client returned
Mut_ch_client_cb_AlwaysDispatch(L, ev, f) ==
    LET client_name == ev.key IN
    IF ev.op = SR_OP_CREATED THEN
        LET r1 == nc_server_ch_add_client(L, client_name, f.c1)
            r2 == nc_connect_ch_client_dispatch(r1.L, client_name, f.c2)
            calls == <<LogCall("ch_add_client", client_name, "", 0, r1.ok),
                       LogCall("ch_client_dispatch", client_name, "", 0, r2.ok)>>
        IN IF ~r2.ok THEN Return(r2.L, SR_ERR_INTERNAL, 1, calls)
           ELSE Continue(r2.L, calls)
    ELSE IF ev.op = SR_OP_DELETED THEN
        LET r1 == nc_server_ch_del_client(L, client_name, f.c1)
            calls == <<LogCall("ch_del_client", client_name, "", 0, r1.ok)>>
        IN IF ~r1.ok THEN Return(r1.L, SR_ERR_INTERNAL, 1, calls)
           ELSE Continue(r1.L, calls)
    ELSE Continue(L, <<>>)

\* the loop body of np2srv_ch_client_cb
np2srv_ch_client_cb(L, ev, f) ==
    LET client_name == ev.key IN
    IF ev.op = SR_OP_CREATED THEN
        LET r1 == nc_server_ch_add_client(L, client_name, f.c1)
            call1 == LogCall("ch_add_client", client_name, "", 0, r1.ok)
        IN IF r1.ok THEN
               LET r2 == nc_connect_ch_client_dispatch(r1.L, client_name, f.c2)
                   calls == <<call1, LogCall("ch_client_dispatch", client_name, "", 0, r2.ok)>>
               IN IF ~r2.ok THEN Return(r2.L, SR_ERR_INTERNAL, 1, calls)
                  ELSE Continue(r2.L, calls)
           ELSE Return(r1.L, SR_ERR_INTERNAL, 1, <<call1>>)
    ELSE IF ev.op = SR_OP_DELETED THEN
        LET r1 == nc_server_ch_del_client(L, client_name, f.c1)
            calls == <<LogCall("ch_del_client", client_name, "", 0, r1.ok)>>
        IN IF ~r1.ok THEN Return(r1.L, SR_ERR_INTERNAL, 1, calls)
           ELSE Continue(r1.L, calls)
    ELSE Continue(L, <<>>)

\* the loop body of np2srv_ch_client_endpt_ssh_cb
np2srv_ch_client_endpt_ssh_cb(L, ev, f) ==
    LET endpt_name == Up(ev, 1)
        client_name == Up(ev, 3)
    IN
    IF ev.op = SR_OP_CREATED THEN
        LET r1 == nc_server_add_endpt(L, client_name, endpt_name, f.c1)
            \* turn off all auth methods by default; the result is not looked at
            r2 == nc_server_ssh_endpt_set_auth_methods(r1.L, client_name, endpt_name, 0, f.c2)
            calls == <<LogCall("add_endpt", client_name, endpt_name, 0, r1.ok),
                       LogCall("set_auth_methods", client_name, endpt_name, 0, r2.ok)>>
        IN IF ~r1.ok THEN Return(r2.L, SR_ERR_INTERNAL, 1, calls)
           ELSE Continue(r2.L, calls)
    ELSE IF ev.op = SR_OP_DELETED THEN
        LET r1 == nc_server_del_endpt(L, client_name, endpt_name, f.c1)
            calls == <<LogCall("del_endpt", client_name, endpt_name, 0, r1.ok)>>
        IN IF ~r1.ok THEN Return(r1.L, SR_ERR_INTERNAL, 1, calls)
           ELSE Continue(r1.L, calls)
    ELSE Continue(L, <<>>)

(***************************************************************************)
(* Host-key handlers (an ordered-by-user list).                            *)
(***************************************************************************)
\* the host-key loop body passing NULL for the predecessor of a moved key
Mut_HostkeyBody_MoveToHead(L, ev, f, client_name, endpt_name) ==
    LET name == ev.key
        r1 == IF ev.op = SR_OP_CREATED
              THEN nc_server_ssh_endpt_add_hostkey(L, client_name, endpt_name, name, -1, f.c1)
              ELSE IF ev.op = SR_OP_DELETED
              THEN nc_server_ssh_endpt_del_hostkey(L, client_name, endpt_name, name, -1, f.c1)
              ELSE nc_server_ssh_endpt_mov_hostkey(L, client_name, endpt_name, name, "", f.c1)
        fn == IF ev.op = SR_OP_CREATED THEN "add_hostkey"
              ELSE IF ev.op = SR_OP_DELETED THEN "del_hostkey" ELSE "mov_hostkey"
        calls == <<LogCall(fn, client_name, endpt_name, 0, r1.ok)>>
    IN IF ev.op \notin {SR_OP_CREATED, SR_OP_DELETED, SR_OP_MOVED} THEN Continue(L, <<>>)
       ELSE IF ~r1.ok THEN Return(r1.L, SR_ERR_INTERNAL, 1, calls)
       ELSE Continue(r1.L, calls)

\* the host-key loop body leaving Deleted among the operations it ignores
Mut_HostkeyBody_DeletedIgnored(L, ev, f, client_name, endpt_name) ==
    LET name == ev.key
        r1 == IF ev.op = SR_OP_CREATED
              THEN nc_server_ssh_endpt_add_hostkey(L, client_name, endpt_name, name, -1, f.c1)
              ELSE nc_server_ssh_endpt_mov_hostkey(L, client_name, endpt_name, name,
                                                   ev.prev_val, f.c1)
        fn == IF ev.op = SR_OP_CREATED THEN "add_hostkey" ELSE "mov_hostkey"
        calls == <<LogCall(fn, client_name, endpt_name, 0, r1.ok)>>
    IN IF ev.op \notin {SR_OP_CREATED, SR_OP_MOVED} THEN Continue(L, <<>>)
       ELSE IF ~r1.ok THEN Return(r1.L, SR_ERR_INTERNAL, 1, calls)
       ELSE Continue(r1.L, calls)

\* the loop body the two host-key handlers share, but for the depth of the names
HostkeyBody(L, ev, f, client_name, endpt_name) ==
    LET name == ev.key
        r1 == IF ev.op = SR_OP_CREATED
              THEN nc_server_ssh_endpt_add_hostkey(L, client_name, endpt_name, name, -1, f.c1)
              ELSE IF ev.op = SR_OP_DELETED
              THEN nc_server_ssh_endpt_del_hostkey(L, client_name, endpt_name, name, -1, f.c1)
              ELSE nc_server_ssh_endpt_mov_hostkey(L, client_name, endpt_name, name,
                                                   ev.prev_val, f.c1)
        fn == IF ev.op = SR_OP_CREATED THEN "add_hostkey"
              ELSE IF ev.op = SR_OP_DELETED THEN "del_hostkey" ELSE "mov_hostkey"
        calls == <<LogCall(fn, client_name, endpt_name, 0, r1.ok)>>
    IN IF ev.op \notin {SR_OP_CREATED, SR_OP_DELETED, SR_OP_MOVED} THEN Continue(L, <<>>)
       ELSE IF ~r1.ok THEN Return(r1.L, SR_ERR_INTERNAL, 1, calls)
       ELSE Continue(r1.L, calls)

\* the loop body of np2srv_endpt_ssh_hostkey_cb
np2srv_endpt_ssh_hostkey_cb(L, ev, f) == HostkeyBody(L, ev, f, NoClient, Up(ev, 4))

\* the loop body of np2srv_ch_endpt_ssh_hostkey_cb
np2srv_ch_endpt_ssh_hostkey_cb(L, ev, f) == HostkeyBody(L, ev, f, Up(ev, 6), Up(ev, 4))

(***************************************************************************)
(* Authentication-method handlers (a bitmask kept by the live server).     *)
(***************************************************************************)
\* np2srv_ssh_update_auth_method taking any value of `other` for interactive
Mut_update_auth_method_AnyOther(ev, op, cur_auth) ==
    IF ev.schema = "publickey" THEN
        IF op = SR_OP_CREATED THEN SetBit(cur_auth, NC_SSH_AUTH_PUBLICKEY)
        ELSE IF op = SR_OP_DELETED THEN ClearBit(cur_auth, NC_SSH_AUTH_PUBLICKEY)
        ELSE cur_auth
    ELSE IF ev.schema = "passsword" THEN
        IF op = SR_OP_CREATED THEN SetBit(cur_auth, NC_SSH_AUTH_PASSWORD)
        ELSE IF op = SR_OP_DELETED THEN ClearBit(cur_auth, NC_SSH_AUTH_PASSWORD)
        ELSE cur_auth
    ELSE IF ev.schema = "hostbased" \/ ev.schema = "none" THEN cur_auth
    ELSE IF ev.schema = "other" THEN
        IF op = SR_OP_CREATED THEN SetBit(cur_auth, NC_SSH_AUTH_INTERACTIVE)
        ELSE IF op = SR_OP_DELETED THEN ClearBit(cur_auth, NC_SSH_AUTH_INTERACTIVE)
        ELSE cur_auth
    ELSE cur_auth

\* the new mask for one event on a leaf of supported-authentication-methods
np2srv_ssh_update_auth_method(ev, op, cur_auth) ==
    IF ev.schema = "publickey" THEN
        IF op = SR_OP_CREATED THEN SetBit(cur_auth, NC_SSH_AUTH_PUBLICKEY)
        ELSE IF op = SR_OP_DELETED THEN ClearBit(cur_auth, NC_SSH_AUTH_PUBLICKEY)
        ELSE cur_auth
    ELSE IF ev.schema = "passsword" THEN
        IF op = SR_OP_CREATED THEN SetBit(cur_auth, NC_SSH_AUTH_PASSWORD)
        ELSE IF op = SR_OP_DELETED THEN ClearBit(cur_auth, NC_SSH_AUTH_PASSWORD)
        ELSE cur_auth
    ELSE IF ev.schema = "hostbased" \/ ev.schema = "none" THEN cur_auth
    ELSE IF ev.schema = "other" THEN
        IF ev.str = "interactive" THEN
            IF op = SR_OP_CREATED THEN SetBit(cur_auth, NC_SSH_AUTH_INTERACTIVE)
            ELSE IF op = SR_OP_DELETED THEN ClearBit(cur_auth, NC_SSH_AUTH_INTERACTIVE)
            ELSE cur_auth
        ELSE cur_auth
    ELSE cur_auth

\* the authentication-method loop body toggling a mask it keeps from the events
\* it has seen, not the mask the live server holds
Mut_AuthMethodsBody_CachedMask(L, ev, f, client_name, endpt_name) ==
    LET cur == cfg.auth[ev.owner]
        auth == np2srv_ssh_update_auth_method(ev, ev.op, cur)
        r1 == nc_server_ssh_endpt_set_auth_methods(L, client_name, endpt_name, auth, f.c1)
        calls == <<LogCall("get_auth_methods", client_name, endpt_name, cur, TRUE),
                   LogCall("set_auth_methods", client_name, endpt_name, auth, r1.ok)>>
    IN IF ~r1.ok THEN Return(r1.L, SR_ERR_INTERNAL, 1, calls)
       ELSE Continue(r1.L, calls)

\* the loop body the two authentication-method handlers share
AuthMethodsBody(L, ev, f, client_name, endpt_name) ==
    LET cur == nc_server_ssh_endpt_get_auth_methods(L, client_name, endpt_name)
        auth == np2srv_ssh_update_auth_method(ev, ev.op, cur)
        r1 == nc_server_ssh_endpt_set_auth_methods(L, client_name, endpt_name, auth, f.c1)
        calls == <<LogCall("get_auth_methods", client_name, endpt_name, cur, TRUE),
                   LogCall("set_auth_methods", client_name, endpt_name, auth, r1.ok)>>
    IN IF ~r1.ok THEN Return(r1.L, SR_ERR_INTERNAL, 1, calls)
       ELSE Continue(r1.L, calls)

\* the loop body of np2srv_endpt_ssh_auth_methods_cb
np2srv_endpt_ssh_auth_methods_cb(L, ev, f) == AuthMethodsBody(L, ev, f, NoClient, Up(ev, 5))

\* the loop body of np2srv_ch_endpt_ssh_auth_methods_cb
np2srv_ch_endpt_ssh_auth_methods_cb(L, ev, f) ==
    AuthMethodsBody(L, ev, f, Up(ev, 7), Up(ev, 5))

(***************************************************************************)
(* Scalar handlers.                                                        *)
(***************************************************************************)
\* np2srv_idle_timeout_cb, had it acted on Created events only
Mut_idle_timeout_cb_CreatedOnly(L, ev, f) ==
    IF ev.op = SR_OP_CREATED
    THEN Continue(nc_server_set_idle_timeout(L, ev.num),
                  <<LogCall("set_idle_timeout", "", "", ev.num, TRUE)>>)
    ELSE Continue(L, <<>>)

\* the loop body of np2srv_idle_timeout_cb
np2srv_idle_timeout_cb(L, ev, f) ==
    IF ev.op = SR_OP_CREATED \/ ev.op = SR_OP_MODIFIED
    THEN Continue(nc_server_set_idle_timeout(L, ev.num),
                  <<LogCall("set_idle_timeout", "", "", ev.num, TRUE)>>)
    ELSE Continue(L, <<>>)

\* a turn of np2srv_tcp_keepalives, had a Deleted event put every parameter
\* back to its default
Mut_KeepalivesTurn_DeletedResetsAll(nest, ev) ==
    IF ev.op = SR_OP_DELETED
    THEN [nest EXCEPT !.idle_time = 1, !.max_probes = 10, !.probe_interval = 5, !.k = @ + 1]
    ELSE [nest EXCEPT !.idle_time = IF ev.schema = "idle-time" THEN ev.num ELSE @,
                      !.max_probes = IF ev.schema = "max-probes" THEN ev.num ELSE @,
                      !.probe_interval = IF ev.schema = "probe-interval" THEN ev.num ELSE @,
                      !.k = @ + 1]

\* one turn of the loop of np2srv_tcp_keepalives: the parameters are gathered
KeepalivesTurn(nest, ev) ==
    LET v == IF ev.schema = "idle-time" THEN (IF ev.op = SR_OP_DELETED THEN 1 ELSE ev.num)
             ELSE IF ev.schema = "max-probes"
             THEN (IF ev.op = SR_OP_DELETED THEN 10 ELSE ev.num)
             ELSE (IF ev.op = SR_OP_DELETED THEN 5 ELSE ev.num)
    IN [nest EXCEPT !.idle_time = IF ev.schema = "idle-time" THEN v ELSE @,
                    !.max_probes = IF ev.schema = "max-probes" THEN v ELSE @,
                    !.probe_interval = IF ev.schema = "probe-interval" THEN v ELSE @,
                    !.k = @ + 1]

\* the end of np2srv_tcp_keepalives, had its parameters started at 0
Mut_KeepalivesEnd_UnsetIsZero(L, nest, status, fault) ==
    LET Z(v) == IF v = -1 THEN 0 ELSE v IN
    IF status # "SR_ERR_NOT_FOUND" THEN [L |-> L, rc |-> status, calls |-> <<>>]
    ELSE LET r == nc_server_endpt_set_keepalives(L, nest.c, nest.e, Z(nest.idle_time),
                                                 Z(nest.max_probes), Z(nest.probe_interval),
                                                 fault)
         IN [L |-> r.L, rc |-> IF r.ok THEN SR_ERR_OK ELSE SR_ERR_INTERNAL,
             calls |-> <<LogCall("set_keepalives", nest.c, nest.e, 0, r.ok)>>]

\* np2srv_tcp_keepalives once its loop has ended with `status`: its result
KeepalivesEnd(L, nest, status, fault) ==
    IF status # "SR_ERR_NOT_FOUND" THEN [L |-> L, rc |-> status, calls |-> <<>>]
    ELSE LET r == nc_server_endpt_set_keepalives(L, nest.c, nest.e, nest.idle_time,
                                                 nest.max_probes, nest.probe_interval, fault)
         IN [L |-> r.L, rc |-> IF r.ok THEN SR_ERR_OK ELSE SR_ERR_INTERNAL,
             calls |-> <<LogCall("set_keepalives", nest.c, nest.e, 0, r.ok)>>]

\* the loop body of the TCP-parameters handlers, had it gone on to the
\* parameter scan whatever the enable/disable call returned
Mut_TcpParamsBody_ScanAfterFailedToggle(L, ev, f, client_name, endpt_name, address_leaf, port_leaf) ==
    IF ev.schema = address_leaf THEN
        IF ev.op = SR_OP_CREATED \/ ev.op = SR_OP_MODIFIED THEN
            LET r1 == nc_server_endpt_set_address(L, client_name, endpt_name, ev.str, f.c1)
                calls == <<LogCall("set_address", client_name, endpt_name, 0, r1.ok)>>
            IN IF ~r1.ok THEN Return(r1.L, SR_ERR_INTERNAL, 1, calls)
               ELSE Continue(r1.L, calls)
        ELSE Continue(L, <<>>)
    ELSE IF ev.schema = port_leaf THEN
        IF ev.op = SR_OP_CREATED \/ ev.op = SR_OP_MODIFIED THEN
            LET r1 == nc_server_endpt_set_port(L, client_name, endpt_name, ev.num, f.c1)
                calls == <<LogCall("set_port", client_name, endpt_name, ev.num, r1.ok)>>
            IN IF ~r1.ok THEN Return(r1.L, SR_ERR_INTERNAL, 1, calls)
               ELSE Continue(r1.L, calls)
        ELSE Continue(L, <<>>)
    ELSE IF ev.schema = "keepalives" THEN
        LET toggles == ev.op = SR_OP_CREATED \/ ev.op = SR_OP_DELETED
            enable == IF ev.op = SR_OP_CREATED THEN 1 ELSE 0
            r1 == IF toggles
                  THEN nc_server_endpt_enable_keepalives(L, client_name, endpt_name,
                                                         enable, f.c1)
                  ELSE Ok(L)
            calls == IF toggles
                     THEN <<LogCall("enable_keepalives", client_name, endpt_name,
                                    enable, r1.ok)>>
                     ELSE <<>>
        IN IF f.mem THEN Return(r1.L, SR_ERR_NOMEM, 0, calls)
           ELSE IF f.nopen # "" THEN Return(r1.L, f.nopen, 1, calls)
           ELSE Enter(r1.L, calls,
                      [NoNest EXCEPT !.fn = "keepalives", !.c = client_name,
                                     !.e = endpt_name])
    ELSE Continue(L, <<>>)

TcpParamsBody(L, ev, f, client_name, endpt_name, address_leaf, port_leaf) ==
    IF ev.schema = address_leaf THEN
        IF ev.op = SR_OP_CREATED \/ ev.op = SR_OP_MODIFIED THEN
            LET r1 == nc_server_endpt_set_address(L, client_name, endpt_name, ev.str, f.c1)
                calls == <<LogCall("set_address", client_name, endpt_name, 0, r1.ok)>>
            IN IF ~r1.ok THEN Return(r1.L, SR_ERR_INTERNAL, 1, calls)
               ELSE Continue(r1.L, calls)
        ELSE Continue(L, <<>>)
    ELSE IF ev.schema = port_leaf THEN
        IF ev.op = SR_OP_CREATED \/ ev.op = SR_OP_MODIFIED THEN
            LET r1 == nc_server_endpt_set_port(L, client_name, endpt_name, ev.num, f.c1)
                calls == <<LogCall("set_port", client_name, endpt_name, ev.num, r1.ok)>>
            IN IF ~r1.ok THEN Return(r1.L, SR_ERR_INTERNAL, 1, calls)
               ELSE Continue(r1.L, calls)
        ELSE Continue(L, <<>>)
    ELSE IF ev.schema = "keepalives" THEN
        LET toggles == ev.op = SR_OP_CREATED \/ ev.op = SR_OP_DELETED
            enable == IF ev.op = SR_OP_CREATED THEN 1 ELSE 0
            r1 == IF toggles
                  THEN nc_server_endpt_enable_keepalives(L, client_name, endpt_name,
                                                         enable, f.c1)
                  ELSE Ok(L)
            calls == IF toggles
                     THEN <<LogCall("enable_keepalives", client_name, endpt_name,
                                    enable, r1.ok)>>
                     ELSE <<>>
        IN IF ~r1.ok THEN Return(r1.L, SR_ERR_INTERNAL, 1, calls)
           \* asprintf of the nested path failed: the iterator is not freed
           ELSE IF f.mem THEN Return(r1.L, SR_ERR_NOMEM, 0, calls)
           \* np2srv_tcp_keepalives could not open its iterator
           ELSE IF f.nopen # "" THEN Return(r1.L, f.nopen, 1, calls)
           ELSE Enter(r1.L, calls,
                      [NoNest EXCEPT !.fn = "keepalives", !.c = client_name,
                                     !.e = endpt_name])
    ELSE Continue(L, <<>>)

\* the loop body of np2srv_endpt_tcp_params_cb
np2srv_endpt_tcp_params_cb(L, ev, f) ==
    TcpParamsBody(L, ev, f, NoClient, Up(ev, 3), "local-address", "local-port")

\* the loop body of np2srv_ch_client_endpt_tcp_params_cb
np2srv_ch_client_endpt_tcp_params_cb(L, ev, f) ==
    TcpParamsBody(L, ev, f, Up(ev, 5), Up(ev, 3), "remote-address", "remote-port")

\* np2srv_*_tcp_params_cb after np2srv_tcp_keepalives returned rc
TcpParamsResume(L, rc, calls) ==
    IF rc # SR_ERR_OK THEN Return(L, rc, 1, calls) ELSE Continue(L, calls)

SshKeepalivesBody(L, ev, f, client_name, endpt_name) ==
    IF ev.schema = "max-wait" THEN
        LET v == IF ev.op = SR_OP_DELETED THEN 30 ELSE ev.num
            r1 == nc_server_ssh_endpt_set_auth_timeout(L, client_name, endpt_name, v, f.c1)
            calls == <<LogCall("set_auth_timeout", client_name, endpt_name, v, r1.ok)>>
        IN IF ~r1.ok THEN Return(r1.L, SR_ERR_INTERNAL, 1, calls)
           ELSE Continue(r1.L, calls)
    ELSE IF ev.schema = "max-attempts" THEN
        LET v == IF ev.op = SR_OP_DELETED THEN 3 ELSE ev.num
            r1 == nc_server_ssh_endpt_set_auth_attempts(L, client_name, endpt_name, v, f.c1)
            calls == <<LogCall("set_auth_attempts", client_name, endpt_name, v, r1.ok)>>
        IN IF ~r1.ok THEN Return(r1.L, SR_ERR_INTERNAL, 1, calls)
           ELSE Continue(r1.L, calls)
    ELSE Continue(L, <<>>)

\* the loop body of np2srv_endpt_ssh_keepalives_cb
np2srv_endpt_ssh_keepalives_cb(L, ev, f) == SshKeepalivesBody(L, ev, f, NoClient, Up(ev, 4))

\* the loop body of np2srv_ch_endpt_ssh_keepalives_cb
np2srv_ch_endpt_ssh_keepalives_cb(L, ev, f) ==
    SshKeepalivesBody(L, ev, f, Up(ev, 6), Up(ev, 4))

\* one turn of the loop of np2srv_ch_periodic_connection_params: the result
\* of the turn's live call
PeriodicTurn(L, client_name, ev, fault) ==
    IF ev.schema = "period" THEN
        LET v == IF ev.op = SR_OP_DELETED THEN 60 ELSE ev.num
            r == nc_server_ch_client_periodic_set_period(L, client_name, v, fault)
        IN [L |-> r.L, rc |-> IF r.ok THEN SR_ERR_OK ELSE SR_ERR_INTERNAL,
            calls |-> <<LogCall("periodic_set_period", client_name, "", v, r.ok)>>]
    ELSE IF ev.schema = "anchor-time" THEN
        LET v == IF ev.op = SR_OP_DELETED THEN 0 ELSE nc_datetime2time(ev.str)
            r == nc_server_ch_client_periodic_set_anchor_time(L, client_name, v, fault)
        IN [L |-> r.L, rc |-> IF r.ok THEN SR_ERR_OK ELSE SR_ERR_INTERNAL,
            calls |-> <<LogCall("periodic_set_anchor_time", client_name, "", v, r.ok)>>]
    ELSE IF ev.schema = "idle-timeout" THEN
        LET v == IF ev.op = SR_OP_DELETED THEN 120 ELSE ev.num
            r == nc_server_ch_client_periodic_set_idle_timeout(L, client_name, v, fault)
        IN [L |-> r.L, rc |-> IF r.ok THEN SR_ERR_OK ELSE SR_ERR_INTERNAL,
            calls |-> <<LogCall("periodic_set_idle_timeout", client_name, "", v, r.ok)>>]
    ELSE [L |-> L, rc |-> SR_ERR_OK, calls |-> <<>>]

\* np2srv_ch_connection_type_cb, had it given every created branch the
\* persistent type
Mut_ch_connection_type_cb_AlwaysPersist(L, ev, f) ==
    LET client_name == Up(ev, 2) IN
    IF ev.op = SR_OP_CREATED /\ ev.schema \in {"persistent", "periodic"} THEN
        LET r1 == nc_server_ch_client_set_conn_type(L, client_name, "NC_CH_PERSIST", f.c1)
            calls == <<LogCall("set_conn_type", client_name, "NC_CH_PERSIST", 0, r1.ok)>>
        IN IF ~r1.ok THEN Return(r1.L, SR_ERR_INTERNAL, 1, calls)
           ELSE Continue(r1.L, calls)
    ELSE IF ev.op = SR_OP_MODIFIED /\ ev.schema = "periodic" /\ ~f.mem /\ f.nopen = ""
    THEN Enter(L, <<>>, [NoNest EXCEPT !.fn = "periodic", !.c = client_name])
    ELSE IF ev.op = SR_OP_MODIFIED THEN Return(L, SR_ERR_NOMEM, 0, <<>>)
    ELSE Continue(L, <<>>)

\* the loop body of np2srv_ch_connection_type_cb
np2srv_ch_connection_type_cb(L, ev, f) ==
    LET client_name == Up(ev, 2) IN
    IF ev.op = SR_OP_CREATED THEN
        IF ev.schema = "persistent" \/ ev.schema = "periodic" THEN
            LET type == IF ev.schema = "persistent" THEN "NC_CH_PERSIST" ELSE "NC_CH_PERIOD"
                r1 == nc_server_ch_client_set_conn_type(L, client_name, type, f.c1)
                calls == <<LogCall("set_conn_type", client_name, type, 0, r1.ok)>>
            IN IF ~r1.ok THEN Return(r1.L, SR_ERR_INTERNAL, 1, calls)
               ELSE Continue(r1.L, calls)
        ELSE Continue(L, <<>>)
    ELSE IF ev.op = SR_OP_MODIFIED THEN
        \* assert(!strcmp(node->schema->name, "periodic"))
        IF ev.schema # "periodic" THEN Return(L, "SIGABRT", 0, <<>>)
        \* asprintf of the nested path failed: the iterator is not freed
        ELSE IF f.mem THEN Return(L, SR_ERR_NOMEM, 0, <<>>)
        \* np2srv_ch_periodic_connection_params could not open its iterator
        ELSE IF f.nopen # "" THEN Return(L, f.nopen, 0, <<>>)
        ELSE Enter(L, <<>>, [NoNest EXCEPT !.fn = "periodic", !.c = client_name])
    ELSE Continue(L, <<>>)

\* np2srv_ch_connection_type_cb after np2srv_ch_periodic_connection_params
\* returned rc: an error is passed on with the iterator still open
ConnectionTypeResume(L, rc, calls) ==
    IF rc # SR_ERR_OK THEN Return(L, rc, 0, calls) ELSE Continue(L, calls)

\* the loop body of np2srv_ch_reconnect_strategy_cb
np2srv_ch_reconnect_strategy_cb(L, ev, f) ==
    LET client_name == Up(ev, 2) IN
    IF ev.schema = "start-with" THEN
        LET sw == IF ev.op = SR_OP_DELETED THEN "NC_CH_FIRST_LISTED"
                  ELSE IF ev.str = "first-listed" THEN "NC_CH_FIRST_LISTED"
                  ELSE IF ev.str = "last-connected" THEN "NC_CH_LAST_CONNECTED"
                  ELSE IF ev.str = "random-selection" THEN "NC_CH_RANDOM"
                  ELSE ""
            r1 == IF sw = "" THEN Ok(L)
                  ELSE nc_server_ch_client_set_start_with(L, client_name, sw, f.c1)
            calls == IF sw = "" THEN <<>>
                     ELSE <<LogCall("set_start_with", client_name, sw, 0, r1.ok)>>
        IN IF ~r1.ok THEN Return(r1.L, SR_ERR_INTERNAL, 1, calls)
           ELSE Continue(r1.L, calls)
    ELSE IF ev.schema = "max-attempts" THEN
        LET v == IF ev.op = SR_OP_DELETED THEN 3 ELSE ev.num
            r1 == nc_server_ch_client_set_max_attempts(L, client_name, v, f.c1)
            calls == <<LogCall("set_max_attempts", client_name, "", v, r1.ok)>>
        IN IF ~r1.ok THEN Return(r1.L, SR_ERR_INTERNAL, 1, calls)
           ELSE Continue(r1.L, calls)
    ELSE Continue(L, <<>>)

(***************************************************************************)
(* The handlers, by the name of their C function.                          *)
(***************************************************************************)
LifecycleHandlers ==
    {"np2srv_endpt_ssh_cb", "np2srv_ch_client_cb", "np2srv_ch_client_endpt_ssh_cb"}
HostkeyHandlers == {"np2srv_endpt_ssh_hostkey_cb", "np2srv_ch_endpt_ssh_hostkey_cb"}
AuthHandlers == {"np2srv_endpt_ssh_auth_methods_cb", "np2srv_ch_endpt_ssh_auth_methods_cb"}
ScalarHandlers ==
    {"np2srv_idle_timeout_cb", "np2srv_endpt_tcp_params_cb",
     "np2srv_ch_client_endpt_tcp_params_cb", "np2srv_endpt_ssh_keepalives_cb",
     "np2srv_ch_endpt_ssh_keepalives_cb", "np2srv_ch_connection_type_cb",
     "np2srv_ch_reconnect_strategy_cb"}

\* the handlers that build the path of their scan (xpath/*) with asprintf
Xpath2Handlers == (AuthHandlers \cup ScalarHandlers) \ {"np2srv_idle_timeout_cb"}

\* one turn of the loop of handler h
Body(h, L, ev, f) ==
    CASE h = "np2srv_endpt_ssh_cb" -> np2srv_endpt_ssh_cb(L, ev, f)
      [] h = "np2srv_ch_client_cb" -> np2srv_ch_client_cb(L, ev, f)
      [] h = "np2srv_ch_client_endpt_ssh_cb" -> np2srv_ch_client_endpt_ssh_cb(L, ev, f)
      [] h = "np2srv_endpt_ssh_hostkey_cb" -> np2srv_endpt_ssh_hostkey_cb(L, ev, f)
      [] h = "np2srv_ch_endpt_ssh_hostkey_cb" -> np2srv_ch_endpt_ssh_hostkey_cb(L, ev, f)
      [] h = "np2srv_endpt_ssh_auth_methods_cb" -> np2srv_endpt_ssh_auth_methods_cb(L, ev, f)
      [] h = "np2srv_ch_endpt_ssh_auth_methods_cb" ->
             np2srv_ch_endpt_ssh_auth_methods_cb(L, ev, f)
      [] h = "np2srv_idle_timeout_cb" -> np2srv_idle_timeout_cb(L, ev, f)
      [] h = "np2srv_endpt_tcp_params_cb" -> np2srv_endpt_tcp_params_cb(L, ev, f)
      [] h = "np2srv_ch_client_endpt_tcp_params_cb" ->
             np2srv_ch_client_endpt_tcp_params_cb(L, ev, f)
      [] h = "np2srv_endpt_ssh_keepalives_cb" -> np2srv_endpt_ssh_keepalives_cb(L, ev, f)
      [] h = "np2srv_ch_endpt_ssh_keepalives_cb" ->
             np2srv_ch_endpt_ssh_keepalives_cb(L, ev, f)
      [] h = "np2srv_ch_connection_type_cb" -> np2srv_ch_connection_type_cb(L, ev, f)
      [] h = "np2srv_ch_reconnect_strategy_cb" -> np2srv_ch_reconnect_strategy_cb(L, ev, f)

\* the failures a turn of handler h can meet
FaultsOf(h) ==
    {f \in Faults :
        /\ f.c2 => h \in LifecycleHandlers
        /\ (f.mem \/ f.nopen # "") =>
               h \in {"np2srv_endpt_tcp_params_cb", "np2srv_ch_client_endpt_tcp_params_cb",
                      "np2srv_ch_connection_type_cb"}}

(***************************************************************************)
(* The committed configuration (the datastore): which entities it holds,   *)
(* each endpoint's host-key list and its set of recognized authentication  *)
(* methods (as a mask).  A change event is a difference between two        *)
(* committed configurations; Gen(h, C) is every event the subscription of  *)
(* handler h can deliver in configuration C, with the configuration the    *)
(* event leads to.                                                         *)
(***************************************************************************)
Range(s) == {s[i] : i \in 1..Len(s)}

\* the replay of an ordered-by-user list
ReplayCreated(s, name) == Append(s, name)
ReplayDeleted(s, name) == SelectSeq(s, LAMBDA x : x # name)
ReplayMoved(s, name, prev) ==
    LET rest == SelectSeq(s, LAMBDA x : x # name)
        p == IF prev = "" THEN 0 ELSE IndexOf(rest, prev)
    IN SubSeq(rest, 1, p) \o <<name>> \o SubSeq(rest, p + 1, Len(rest))

G(ev, C) == [ev |-> ev, cfg |-> C]

DropEndpt(C, id) ==
    [C EXCEPT !.ep[id] = FALSE, !.hostkeys[id] = <<>>, !.auth[id] = 0]

GenEndptSsh(C, ids) ==
    {G(Event(SR_OP_CREATED, "ssh", "", 0, "", "", EpAt(1, id)), [C EXCEPT !.ep[id] = TRUE])
        : id \in {i \in ids : ~C.ep[i] /\ (i[1] # NoClient => C.ch[i[1]])}}
    \cup {G(Event(SR_OP_DELETED, "ssh", "", 0, "", "", EpAt(1, id)), DropEndpt(C, id))
        : id \in {i \in ids : C.ep[i]}}

GenClient(C) ==
    {G(Event(SR_OP_CREATED, "netconf-client", "", 0, c, "", [anc |-> <<Junk, Junk>>, owner |-> <<c, "">>]),
       [C EXCEPT !.ch[c] = TRUE]) : c \in {x \in ClientNames : ~C.ch[x]}}
    \cup {G(Event(SR_OP_DELETED, "netconf-client", "", 0, c, "", [anc |-> <<Junk, Junk>>, owner |-> <<c, "">>]),
            [C EXCEPT !.ch[c] = FALSE,
                      !.ep = [id \in EpIds |-> IF id[1] = c THEN FALSE ELSE @[id]],
                      !.hostkeys = [id \in EpIds |-> IF id[1] = c THEN <<>> ELSE @[id]],
                      !.auth = [id \in EpIds |-> IF id[1] = c THEN 0 ELSE @[id]]])
            : c \in {x \in ClientNames : C.ch[x]}}

GenHostkey(C, ids) ==
    UNION {
        {G(Event(SR_OP_CREATED, "host-key", "", 0, k, "", EpAt(4, id)),
           [C EXCEPT !.hostkeys[id] = ReplayCreated(@, k)])
            : k \in KeyNames \ Range(C.hostkeys[id])}
        \cup {G(Event(SR_OP_DELETED, "host-key", "", 0, k, "", EpAt(4, id)),
                [C EXCEPT !.hostkeys[id] = ReplayDeleted(@, k)])
            : k \in Range(C.hostkeys[id])}
        \cup {G(Event(SR_OP_MOVED, "host-key", "", 0, m[1], m[2], EpAt(4, id)),
                [C EXCEPT !.hostkeys[id] = ReplayMoved(@, m[1], m[2])])
            : m \in {x \in Range(C.hostkeys[id]) \X (Range(C.hostkeys[id]) \cup {""})
                        : x[1] # x[2]}}
        : id \in {i \in ids : C.ep[i]}}

\* the bit of a recognized method, 0 for any other
MethodBit(schema, str) ==
    CASE schema = "publickey" -> NC_SSH_AUTH_PUBLICKEY
      [] schema = "password" -> NC_SSH_AUTH_PASSWORD
      [] schema = "other" /\ str = "interactive" -> NC_SSH_AUTH_INTERACTIVE
      [] OTHER -> 0

\* the flag leaves: the schema name and, for the leaf-list `other`, the value
MethodLeaves ==
    {<<"publickey", "">>, <<"password", "">>, <<"hostbased", "">>, <<"none", "">>,
     <<"other", "interactive">>, <<"other", "foo">>}

GenAuth(C, ids) ==
    UNION {
        {G(Event(SR_OP_CREATED, m[1], m[2], 0, "", "", EpAt(5, id)),
           [C EXCEPT !.auth[id] = SetBit(@, MethodBit(m[1], m[2]))])
            : m \in {x \in MethodLeaves : MethodBit(x[1], x[2]) = 0
                                           \/ ~HasBit(C.auth[id], MethodBit(x[1], x[2]))}}
        \cup {G(Event(SR_OP_DELETED, m[1], m[2], 0, "", "", EpAt(5, id)),
                [C EXCEPT !.auth[id] = ClearBit(@, MethodBit(m[1], m[2]))])
            : m \in {x \in MethodLeaves : MethodBit(x[1], x[2]) = 0
                                           \/ HasBit(C.auth[id], MethodBit(x[1], x[2]))}}
        \cup {G(Event(SR_OP_MODIFIED, m[1], m[2], 0, "", "", EpAt(5, id)), C)
            : m \in MethodLeaves}
        : id \in {i \in ids : C.ep[i]}}

LeafOps == {SR_OP_CREATED, SR_OP_MODIFIED, SR_OP_DELETED}

GenNum(C, schema, at) == {G(Event(op, schema, "", v, "", "", at), C)
                              : op \in LeafOps, v \in NumVals}
GenStr(C, schema, strs, at) == {G(Event(op, schema, v, 0, "", "", at), C)
                                    : op \in LeafOps, v \in strs}

GenTcpParams(C, ids, address_leaf, port_leaf) ==
    UNION {
        GenStr(C, address_leaf, StrVals, EpAt(3, id))
        \cup GenNum(C, port_leaf, EpAt(3, id))
        \cup {G(Event(op, "keepalives", "", 0, "", "", EpAt(3, id)), C) : op \in LeafOps}
        : id \in {i \in ids : C.ep[i]}}

GenSshKeepalives(C, ids) ==
    UNION {GenNum(C, "max-wait", EpAt(4, id)) \cup GenNum(C, "max-attempts", EpAt(4, id))
              : id \in {i \in ids : C.ep[i]}}

\* (a created `periodic` container holds its period leaf: num is its value)
GenConnectionType(C) ==
    UNION {
        {G(Event(op, b, "", 0, "", "", ClAt(2, c)), C)
            : op \in {SR_OP_CREATED, SR_OP_DELETED}, b \in {"persistent", "periodic"}}
        \cup {G(Event(SR_OP_CREATED, "periodic", "", v, "", "", ClAt(2, c)), C)
                : v \in NumVals}
        \cup {G(Event(SR_OP_MODIFIED, "periodic", "", 0, "", "", ClAt(2, c)), C)}
        : c \in {x \in ClientNames : C.ch[x]}}

GenReconnect(C) ==
    UNION {
        GenStr(C, "start-with", {"first-listed", "last-connected", "random-selection"},
               ClAt(2, c))
        \cup GenNum(C, "max-attempts", ClAt(2, c))
        : c \in {x \in ClientNames : C.ch[x]}}

Gen(h, C) ==
    CASE h = "np2srv_endpt_ssh_cb" -> GenEndptSsh(C, ListenIds)
      [] h = "np2srv_ch_client_cb" -> GenClient(C)
      [] h = "np2srv_ch_client_endpt_ssh_cb" -> GenEndptSsh(C, ChIds)
      [] h = "np2srv_endpt_ssh_hostkey_cb" -> GenHostkey(C, ListenIds)
      [] h = "np2srv_ch_endpt_ssh_hostkey_cb" -> GenHostkey(C, ChIds)
      [] h = "np2srv_endpt_ssh_auth_methods_cb" -> GenAuth(C, ListenIds)
      [] h = "np2srv_ch_endpt_ssh_auth_methods_cb" -> GenAuth(C, ChIds)
      [] h = "np2srv_idle_timeout_cb" -> GenNum(C, "idle-timeout", TopAt(2))
      [] h = "np2srv_endpt_tcp_params_cb" ->
             GenTcpParams(C, ListenIds, "local-address", "local-port")
      [] h = "np2srv_ch_client_endpt_tcp_params_cb" ->
             GenTcpParams(C, ChIds, "remote-address", "remote-port")
      [] h = "np2srv_endpt_ssh_keepalives_cb" -> GenSshKeepalives(C, ListenIds)
      [] h = "np2srv_ch_endpt_ssh_keepalives_cb" -> GenSshKeepalives(C, ChIds)
      [] h = "np2srv_ch_connection_type_cb" -> GenConnectionType(C)
      [] h = "np2srv_ch_reconnect_strategy_cb" -> GenReconnect(C)

\* the events of the nested scans: the path xpath/keepalives/* (xpath/periodic/*)
\* is the subscription's, so it selects the leaves of every endpoint (client)
GenKeepalives(C, listen) ==
    UNION {GenNum(C, "idle-time", EpAt(4, id)) \cup GenNum(C, "max-probes", EpAt(4, id))
           \cup GenNum(C, "probe-interval", EpAt(4, id))
              : id \in {i \in EpIds : C.ep[i] /\ ((i[1] = NoClient) = listen)}}

GenPeriodic(C) ==
    UNION {GenNum(C, "period", ClAt(3, c)) \cup GenStr(C, "anchor-time", DateTimes, ClAt(3, c))
           \cup GenNum(C, "idle-timeout", ClAt(3, c))
              : c \in {x \in ClientNames : C.ch[x]}}

(***************************************************************************)
(* The state.                                                              *)
(*   live   the live server state                                          *)
(*   cfg    the committed configuration the next event departs from        *)
(*   run    the handler invocation in progress: the handler, the events it *)
(*          has consumed, the nested scan it is in                         *)
(*   scans  handler invocations the run still follows                      *)
(*   ret    what the last invocation returned                              *)
(*   iters  change iterators open (got and not yet freed)                  *)
(*   last   the last turn of a loop: its handler, event, live calls        *)
(*   hist   the events the invocation has consumed (kept while rec)        *)
(*   clean  no live call failed and no handler returned early so far       *)
(*   dflt   per scalar leaf, the live value its first Deleted event left   *)
(*   hk     the host-key callback's last call                              *)
(***************************************************************************)
Idle == [h |-> "none", n |-> 0, nest |-> NoNest]

NoEvent == Event("", "", "", 0, "", "", TopAt(0))
NoLast == [kind |-> "none", h |-> "none", ev |-> NoEvent, calls |-> <<>>,
           done |-> FALSE, rc |-> SR_ERR_OK]

\* the scalar leaves the handlers' own loops treat, by handler and schema name
ScalarLeaves ==
    {<<"np2srv_idle_timeout_cb", "idle-timeout">>,
     <<"np2srv_endpt_tcp_params_cb", "local-address">>,
     <<"np2srv_endpt_tcp_params_cb", "local-port">>,
     <<"np2srv_ch_client_endpt_tcp_params_cb", "remote-address">>,
     <<"np2srv_ch_client_endpt_tcp_params_cb", "remote-port">>,
     <<"np2srv_endpt_ssh_keepalives_cb", "max-wait">>,
     <<"np2srv_endpt_ssh_keepalives_cb", "max-attempts">>,
     <<"np2srv_ch_endpt_ssh_keepalives_cb", "max-wait">>,
     <<"np2srv_ch_endpt_ssh_keepalives_cb", "max-attempts">>,
     <<"np2srv_ch_reconnect_strategy_cb", "start-with">>,
     <<"np2srv_ch_reconnect_strategy_cb", "max-attempts">>}

Val(num, str) == [num |-> num, str |-> str]
Unset == [set |-> FALSE, val |-> Val(0, "")]

\* the live value the leaf of event ev stands for
LiveLeaf(L, ev) ==
    LET id == ev.owner IN
    CASE ev.schema = "idle-timeout" -> Val(L.idle_timeout, "")
      [] ev.schema \in {"local-address", "remote-address"} -> Val(0, L.ep[id].address)
      [] ev.schema \in {"local-port", "remote-port"} -> Val(L.ep[id].port, "")
      [] ev.schema = "max-wait" -> Val(L.ep[id].auth_timeout, "")
      [] ev.schema = "max-attempts" /\ id[2] # "" -> Val(L.ep[id].auth_attempts, "")
      [] ev.schema = "max-attempts" /\ id[2] = "" -> Val(L.ch[id[1]].max_attempts, "")
      [] ev.schema = "start-with" -> Val(0, L.ch[id[1]].start_with)
      [] OTHER -> Val(0, "")

AllOk(calls) == \A i \in 1..Len(calls) : calls[i].ok

(***************************************************************************)
(* The actions.                                                            *)
(***************************************************************************)
\* the handler is called: it builds its path and gets its change iterator
OpenScan(h) ==
    /\ run.h = "none"
    /\ scans > 0
    /\ scans' = scans - 1
    /\ \E out \in {"ok"} \cup IterErrs \cup (IF h \in Xpath2Handlers THEN {"nomem"} ELSE {}) :
          /\ run' = IF out = "ok" THEN [Idle EXCEPT !.h = h] ELSE Idle
          /\ iters' = IF out = "ok" THEN iters + 1 ELSE iters
          /\ ret' = IF out = "ok" THEN "running"
                    ELSE IF out = "nomem" THEN SR_ERR_NOMEM ELSE out
    /\ last' = NoLast
    /\ hist' = <<>>
    /\ UNCHANGED <<live, cfg, rec, clean, dflt, hk, ak, pk>>

\* the events an invocation of handler h is followed for: a handler with
\* nested scans is followed for as many events of its own as a nested scan is
EventsOf(h) ==
    IF h \in {"np2srv_endpt_tcp_params_cb", "np2srv_ch_client_endpt_tcp_params_cb",
              "np2srv_ch_connection_type_cb"}
    THEN MaxNested ELSE MaxEvents

\* sr_get_change_tree_next gave an event: one turn of the handler's loop
ScanEvent(h) ==
    /\ run.h = h
    /\ run.nest.fn = "none"
    /\ run.n < EventsOf(h)
    /\ \E g \in Gen(h, cfg), f \in FaultsOf(h) :
          LET r == Body(h, live, g.ev, f)
              leaf == <<h, g.ev.schema>>
          IN /\ live' = r.L
             /\ cfg' = g.cfg
             /\ iters' = iters + r.opened - r.freed
             /\ run' = IF r.done THEN Idle
                       ELSE [run EXCEPT !.n = @ + 1, !.nest = r.nest]
             /\ ret' = IF r.done THEN r.rc ELSE ret
             /\ last' = [kind |-> "event", h |-> h, ev |-> g.ev, calls |-> r.calls,
                         done |-> r.done, rc |-> r.rc]
             /\ hist' = IF rec THEN Append(hist, g.ev) ELSE hist
             /\ clean' = (clean /\ ~r.done /\ AllOk(r.calls))
             /\ dflt' = IF /\ leaf \in ScalarLeaves
                           /\ g.ev.op = SR_OP_DELETED
                           /\ ~r.done
                           /\ ~dflt[leaf].set
                        THEN [dflt EXCEPT ![leaf] = [set |-> TRUE, val |-> LiveLeaf(r.L, g.ev)]]
                        ELSE dflt
    /\ UNCHANGED <<scans, rec, hk, ak, pk>>

\* the return of a handler after its loop, had it kept its iterator
Mut_CloseScan_IteratorKept(h) ==
    /\ run.h = h
    /\ run.nest.fn = "none"
    /\ \E status \in {"SR_ERR_NOT_FOUND"} \cup IterErrs :
          ret' = IF status = "SR_ERR_NOT_FOUND" THEN SR_ERR_OK ELSE status
    /\ run' = Idle
    /\ UNCHANGED <<live, cfg, scans, last, hist, rec, clean, dflt, hk, ak, pk, iters>>

\* sr_get_change_tree_next gave no event: the iterator is freed and the handler
\* returns, SR_ERR_OK when the scan was exhausted (SR_ERR_NOT_FOUND)
CloseScan(h) ==
    /\ run.h = h
    /\ run.nest.fn = "none"
    /\ \E status \in {"SR_ERR_NOT_FOUND"} \cup IterErrs :
          ret' = IF status = "SR_ERR_NOT_FOUND" THEN SR_ERR_OK ELSE status
    /\ iters' = iters - 1
    /\ run' = Idle
    /\ UNCHANGED <<live, cfg, scans, last, hist, rec, clean, dflt, hk, ak, pk>>

\* what the outer handler does with the result of its nested scan
Resume(h, L, rc, calls) ==
    IF h = "np2srv_ch_connection_type_cb" THEN ConnectionTypeResume(L, rc, calls)
    ELSE TcpParamsResume(L, rc, calls)

\* the nested function returned rc, its own iterator freed
NestedReturn(L, rc, calls, ev) ==
    LET r == Resume(run.h, L, rc, calls)
    IN /\ live' = r.L
       /\ iters' = iters - 1 - r.freed
       /\ run' = IF r.done THEN Idle ELSE [run EXCEPT !.nest = NoNest]
       /\ ret' = IF r.done THEN r.rc ELSE ret
       /\ last' = [kind |-> "nested", h |-> run.h, ev |-> ev, calls |-> calls,
                   done |-> r.done, rc |-> r.rc]
       /\ clean' = (clean /\ ~r.done /\ AllOk(calls))

\* one turn of the loop of np2srv_tcp_keepalives
KeepalivesEvent ==
    /\ run.nest.fn = "keepalives"
    /\ run.nest.k < MaxNested
    /\ \E g \in GenKeepalives(cfg, run.nest.c = NoClient) :
          /\ run' = [run EXCEPT !.nest = KeepalivesTurn(@, g.ev)]
          /\ last' = [kind |-> "nested", h |-> run.h, ev |-> g.ev, calls |-> <<>>,
                      done |-> FALSE, rc |-> SR_ERR_OK]
    /\ UNCHANGED <<live, cfg, scans, ret, iters, hist, rec, clean, dflt, hk, ak, pk>>

\* the loop of np2srv_tcp_keepalives ends: the parameters are set in one call
KeepalivesEnd_ ==
    /\ run.nest.fn = "keepalives"
    /\ \E status \in {"SR_ERR_NOT_FOUND"} \cup IterErrs, fault \in BOOLEAN :
          LET e == KeepalivesEnd(live, run.nest, status, fault)
          IN NestedReturn(e.L, e.rc, e.calls, NoEvent)
    /\ UNCHANGED <<cfg, scans, hist, rec, dflt, hk, ak, pk>>

\* one turn of the loop of np2srv_ch_periodic_connection_params
PeriodicEvent ==
    /\ run.nest.fn = "periodic"
    /\ run.nest.k < MaxNested
    /\ \E g \in GenPeriodic(cfg), fault \in BOOLEAN :
          LET t == PeriodicTurn(live, run.nest.c, g.ev, fault)
          IN IF t.rc # SR_ERR_OK
             THEN NestedReturn(t.L, SR_ERR_INTERNAL, t.calls, g.ev)
             ELSE /\ live' = t.L
                  /\ run' = [run EXCEPT !.nest.k = @ + 1]
                  /\ last' = [kind |-> "nested", h |-> run.h, ev |-> g.ev,
                              calls |-> t.calls, done |-> FALSE, rc |-> SR_ERR_OK]
                  /\ UNCHANGED <<ret, iters, clean>>
    /\ UNCHANGED <<cfg, scans, hist, rec, dflt, hk, ak, pk>>

\* the loop of np2srv_ch_periodic_connection_params ends
PeriodicEnd ==
    /\ run.nest.fn = "periodic"
    /\ \E status \in {"SR_ERR_NOT_FOUND"} \cup IterErrs :
          NestedReturn(live, IF status = "SR_ERR_NOT_FOUND" THEN SR_ERR_OK ELSE status,
                       <<>>, NoEvent)
    /\ UNCHANGED <<cfg, scans, hist, rec, dflt, hk, ak, pk>>

(***************************************************************************)
(* Initial states and specifications.                                      *)
(***************************************************************************)
\* the server has started: no endpoint, no client
LiveEmpty ==
    [idle_timeout |-> 0, ep |-> [id \in EpIds |-> Absent], ch |-> [c \in ClientNames |-> Absent]]
CfgEmpty ==
    [ep |-> [id \in EpIds |-> FALSE], ch |-> [c \in ClientNames |-> FALSE],
     hostkeys |-> [id \in EpIds |-> <<>>], auth |-> [id \in EpIds |-> 0]]

\* the entities `eps` and `cls` are configured and live, as the lifecycle
\* handlers leave them: every authentication method off
LiveWith(eps, cls) ==
    [idle_timeout |-> 0,
     ep |-> [id \in EpIds |-> IF id \in eps THEN [NewEndpt EXCEPT !.auth = 0] ELSE Absent],
     ch |-> [c \in ClientNames |-> IF c \in cls THEN [NewClient EXCEPT !.dispatched = TRUE]
                                   ELSE Absent]]
CfgWith(eps, cls) ==
    [ep |-> [id \in EpIds |-> id \in eps], ch |-> [c \in ClientNames |-> c \in cls],
     hostkeys |-> [id \in EpIds |-> <<>>], auth |-> [id \in EpIds |-> 0]]

(***************************************************************************)
(* np2srv_hostkey_cb: the live server asks for the private key of the      *)
(* host key `name`.  hk holds the call's locals and what it did:           *)
(*   pc          where the call is                                         *)
(*   store       what the operational datastore holds for the key: NoTree, *)
(*               or the local-definition subtree (its algorithm and        *)
(*               private-key leaves, "" when missing, and its depth below  *)
(*               the document root)                                        *)
(*   sess        the read session: "none", "open", "closed"                *)
(*   stops       calls of sr_session_stop                                  *)
(*   data        the node `data` points to: NullData, or its depth         *)
(*   fetched     sr_get_subtree handed a subtree over                      *)
(*   frees       calls of lyd_free_withsiblings on a node                  *)
(*   freed_root  the node freed was the document root                      *)
(*   why         the failure met, "" when none                             *)
(*   rc          the local rc, returned at the end                         *)
(***************************************************************************)
MaxDepth == 2

NoTree == [alg |-> "", privkey |-> "", depth |-> -1]
NullData == -1
AlgNames == {"rsa2048", "secp256r1", "ed25519"}
Subtrees == [alg : AlgNames \cup {""}, privkey : {"", "PEM"}, depth : 0..MaxDepth]

NC_SSH_KEY_RSA == "NC_SSH_KEY_RSA"
NC_SSH_KEY_ECDSA == "NC_SSH_KEY_ECDSA"

HkIdle ==
    [pc |-> "idle", name |-> "", store |-> NoTree, sess |-> "none", stops |-> 0,
     data |-> NullData, fetched |-> FALSE, frees |-> 0, freed_root |-> FALSE,
     why |-> "", rc |-> -1, privkey_data |-> "", privkey_type |-> ""]

HkStep(next) ==
    /\ hk' = next
    /\ UNCHANGED <<live, cfg, run, scans, ret, iters, last, hist, rec, clean, dflt, ak, pk>>

\* the first `len` characters of an algorithm name (strncmp)
\* strncmp, had it compared the whole name (strcmp)
Mut_Prefix_WholeName(str, len) == str

Prefix(str, len) ==
    CASE str = "rsa2048" /\ len = 3 -> "rsa"
      [] str = "secp256r1" /\ len = 4 -> "secp"
      [] str = "ed25519" /\ len = 3 -> "ed2"
      [] str = "ed25519" /\ len = 4 -> "ed25"
      [] str = "rsa2048" /\ len = 4 -> "rsa2"
      [] str = "secp256r1" /\ len = 3 -> "sec"
      [] OTHER -> ""

\* the callback is called for the key `name`
HkCall ==
    /\ hk.pc = "idle"
    /\ \E name \in KeyNames, store \in Subtrees \cup {NoTree} :
          HkStep([HkIdle EXCEPT !.pc = "session_start", !.name = name, !.store = store])

\* sr_session_start
HkSessionStart ==
    /\ hk.pc = "session_start"
    /\ \E r \in {SR_ERR_OK} \cup IterErrs :
          HkStep(IF r # SR_ERR_OK THEN [hk EXCEPT !.pc = "returned", !.why = "session"]
                 ELSE [hk EXCEPT !.pc = "asprintf", !.sess = "open"])

\* asprintf of the xpath of the key
HkXpath ==
    /\ hk.pc = "asprintf"
    /\ \E mem \in BOOLEAN :
          HkStep(IF mem THEN [hk EXCEPT !.pc = "cleanup", !.why = "emem"]
                 ELSE [hk EXCEPT !.pc = "get_subtree"])

\* sr_get_subtree: an error, no data, or the subtree
HkGetSubtree ==
    /\ hk.pc = "get_subtree"
    /\ \E r \in {SR_ERR_OK} \cup IterErrs :
          HkStep(IF r # SR_ERR_OK THEN [hk EXCEPT !.pc = "cleanup", !.why = "query"]
                 ELSE IF hk.store = NoTree THEN [hk EXCEPT !.pc = "cleanup", !.why = "absent"]
                 ELSE [hk EXCEPT !.pc = "find", !.data = hk.store.depth, !.fetched = TRUE])

\* the loop over the children of data, then the test of alg and privkey
HkFindNodes ==
    /\ hk.pc = "find"
    /\ HkStep(IF hk.store.alg = "" \/ hk.store.privkey = ""
              THEN [hk EXCEPT !.pc = "cleanup", !.why = "leaf"]
              ELSE [hk EXCEPT !.pc = "algorithm"])

\* the key type from the name of the algorithm identity
HkSetAlgorithm ==
    /\ hk.pc = "algorithm"
    /\ HkStep(IF Prefix(hk.store.alg, 3) = "rsa"
              THEN [hk EXCEPT !.pc = "strdup", !.privkey_type = NC_SSH_KEY_RSA]
              ELSE IF Prefix(hk.store.alg, 4) = "secp"
              THEN [hk EXCEPT !.pc = "strdup", !.privkey_type = NC_SSH_KEY_ECDSA]
              ELSE [hk EXCEPT !.pc = "cleanup", !.why = "algorithm"])

\* strdup of the private key, and rc = 0 when it worked
HkSetData ==
    /\ hk.pc = "strdup"
    /\ \E mem \in BOOLEAN :
          HkStep(IF mem THEN [hk EXCEPT !.pc = "cleanup", !.why = "emem"]
                 ELSE [hk EXCEPT !.pc = "cleanup", !.privkey_data = hk.store.privkey,
                                 !.rc = 0])

\* cleanup: while (data->parent) data = data->parent.  With data NULL the read of
\* data->parent is undefined: the process is killed by the fault, or the read
\* gives nothing and the loop is left
HkClimb ==
    /\ hk.pc = "cleanup"
    /\ IF hk.data = NullData
       THEN \E outcome \in {"SIGSEGV", "left"} :
               HkStep(IF outcome = "SIGSEGV" THEN [hk EXCEPT !.pc = "crashed"]
                      ELSE [hk EXCEPT !.pc = "free"])
       ELSE HkStep(IF hk.data > 0 THEN [hk EXCEPT !.data = @ - 1]
                   ELSE [hk EXCEPT !.pc = "free"])

\* lyd_free_withsiblings(data), sr_session_stop(sr_sess), return rc
HkFree ==
    /\ hk.pc = "free"
    /\ HkStep([hk EXCEPT !.pc = "returned",
                         !.frees = IF hk.data = NullData THEN @ ELSE @ + 1,
                         !.freed_root = (hk.data = 0),
                         !.sess = "closed",
                         !.stops = @ + 1])

(***************************************************************************)
(* np2srv_endpt_ssh_auth_users_oper_cb: the users of the system and the    *)
(* keys of their authorized_keys files.  A line is the sequence of its     *)
(* characters; the three algorithm prefixes the handler compares with      *)
(* stand each for their characters, "A" for any other character.           *)
(***************************************************************************)
MaxLine == 5
MaxLines == 2
MaxUsers == 1
\* the accounts and the keys of a file that the naming of the keys is followed for
MaxAccounts == 2
MaxKeys == 100
\* char name[6]
NameSize == 6

NL == "\n"
AlgPrefixes == {"ssh-dss", "ssh-rsa", "ecdsa"}
Atoms == {"ssh-rsa", "ecdsa", "A", " ", "#"}

\* what getline can give: a line that ends with the newline, or the last line
\* of a file that does not
Lines ==
    UNION {[1..k -> Atoms] : k \in 1..MaxLine}
    \cup {Append(b, NL) : b \in UNION {[1..k -> Atoms] : k \in 0..(MaxLine - 1)}}

AkIdle == [pc |-> "idle", users |-> 0, n |-> 0, line |-> <<>>, at_end |-> FALSE,
           entries |-> <<>>, key_idx |-> 0, f |-> "none", rc |-> SR_ERR_INTERNAL]

AkStep(next) ==
    /\ ak' = next
    /\ UNCHANGED <<live, cfg, run, scans, ret, iters, last, hist, rec, clean, dflt, hk, pk>>

\* strchr(ptr, ch): the first ch from ptr on, 0 (NULL) when there is none; the
\* terminating zero is at Len(line) + 1
StrChr(line, ptr, ch) ==
    LET hits == {i \in ptr..Len(line) : line[i] = ch}
    IN IF hits = {} THEN 0 ELSE CHOOSE i \in hits : \A j \in hits : i <= j

\* the loop that looks for the algorithm at ptr and after every space
RECURSIVE FindAlg(_, _)
FindAlg(line, ptr) ==
    IF ptr <= Len(line) /\ line[ptr] \in AlgPrefixes THEN ptr
    ELSE LET sp == StrChr(line, ptr, " ")
         IN IF sp = 0 THEN 0 ELSE FindAlg(line, sp + 1)

\* the body of the getline loop up to the call of np2srv_user_add_auth_key:
\* the line is passed over, or gives an algorithm and key data, or the second
\* strchr is called with the NULL the first one returned
ParseLine(line) ==
    LET alg == FindAlg(line, 1)
        sp == StrChr(line, alg, " ")
        data == sp + 1
        end == StrChr(line, data, " ")
        none == [kind |-> "skip", alg |-> <<>>, data |-> <<>>]
    IN IF Len(line) = 0 \/ line[1] = "#" THEN none
       ELSE IF alg = 0 THEN none
       ELSE IF sp = 0 THEN none
       ELSE IF end # 0
       THEN [kind |-> "key", alg |-> SubSeq(line, alg, sp - 1),
             data |-> SubSeq(line, data, end - 1)]
       ELSE [kind |-> "strchr(NULL)", alg |-> SubSeq(line, alg, sp - 1),
             data |-> SubSeq(line, data, Len(line))]

\* the bytes sprintf(name, "key%d", idx) writes, the terminating zero included
NameBytes(idx) == 3 + (IF idx < 10 THEN 1 ELSE IF idx < 100 THEN 2 ELSE 3) + 1

\* what can go wrong in np2srv_user_add_auth_key: no memory for the node or
\* for a string and, when the name does not fit name[6], the write past the
\* array (undefined: the process is killed, or the name is read back whole)
AddKeyFaults(key_idx) ==
    {"none", "lyd_new", "strndup"}
    \cup (IF NameBytes(key_idx) > NameSize THEN {"SIGABRT"} ELSE {})

\* np2srv_user_add_auth_key: the entry key<idx> is added to the user
np2srv_user_add_auth_key(entries, alg, key, key_idx, fault) ==
    IF fault = "lyd_new"
    THEN [ok |-> FALSE, killed |-> FALSE, entries |-> entries, key_idx |-> key_idx]
    ELSE IF fault = "SIGABRT"
    THEN [ok |-> FALSE, killed |-> TRUE, entries |-> entries,
          key_idx |-> (key_idx + 1) % 256]
    ELSE IF fault = "strndup"
    THEN [ok |-> FALSE, killed |-> FALSE, entries |-> entries,
          key_idx |-> (key_idx + 1) % 256]
    ELSE [ok |-> TRUE, killed |-> FALSE,
          entries |-> Append(entries, [name |-> <<"key", key_idx>>, algorithm |-> alg,
                                       key_data |-> key]),
          key_idx |-> (key_idx + 1) % 256]

\* the handler is called: the container `users` is created
AkCall ==
    /\ ak.pc = "idle"
    /\ \E fault \in BOOLEAN :
          AkStep(IF fault THEN [ak EXCEPT !.pc = "returned", !.rc = SR_ERR_INTERNAL]
                 ELSE [ak EXCEPT !.pc = "getpwent"])

\* getpwent: no more users and the handler succeeds, or a user, its node and
\* the path of its key file
AkGetpwentOf(accounts) ==
    /\ ak.pc = "getpwent"
    /\ \E out \in {"end", "lyd_new", "asprintf"} \cup (IF ak.users < accounts THEN {"user"} ELSE {}) :
          AkStep(CASE out = "end" -> [ak EXCEPT !.pc = "returned", !.rc = SR_ERR_OK]
                   [] out = "lyd_new" -> [ak EXCEPT !.pc = "returned", !.rc = SR_ERR_INTERNAL]
                   [] out = "asprintf" -> [ak EXCEPT !.pc = "returned", !.rc = SR_ERR_INTERNAL]
                   [] out = "user" -> [ak EXCEPT !.pc = "fopen", !.users = @ + 1,
                                                 !.entries = <<>>, !.n = 0, !.at_end = FALSE])

AkGetpwent == AkGetpwentOf(MaxUsers)

\* fopen: the file, no file (the user has no keys), or another error.  The
\* error is logged with ERR("Opening \"%s\" ... (%s).", strerror(errno)): two
\* conversions and one argument, which is undefined: the process is killed by
\* the read of the missing string, or something is logged and the handler
\* goes to cleanup
AkFopen ==
    /\ ak.pc = "fopen"
    /\ \E out \in {"ok", "ENOENT", "EACCES", "EACCES, SIGSEGV"} :
          AkStep(CASE out = "ok" -> [ak EXCEPT !.pc = "getline", !.key_idx = 1, !.f = "open"]
                   [] out = "ENOENT" -> [ak EXCEPT !.pc = "getpwent", !.f = "ENOENT"]
                   [] out = "EACCES" -> [ak EXCEPT !.pc = "returned", !.f = "EACCES",
                                                   !.rc = SR_ERR_INTERNAL]
                   [] out = "EACCES, SIGSEGV" -> [ak EXCEPT !.pc = "crashed", !.f = "EACCES"])

\* getline: the next line (the buffer holds it until the body of the loop has
\* treated it), the end of the file, or a read error
AkGetlineOf(lines, max) ==
    /\ ak.pc = "getline"
    /\ \/ \E out \in {"eof", "ferror"} :
             AkStep(IF out = "eof" THEN [ak EXCEPT !.pc = "getpwent", !.f = "closed"]
                    ELSE [ak EXCEPT !.pc = "returned", !.rc = SR_ERR_INTERNAL, !.f = "closed"])
       \/ /\ ak.n < max
          /\ ~ak.at_end
          /\ \E line \in lines :
                AkStep([ak EXCEPT !.pc = "parse", !.line = line, !.n = @ + 1,
                                  !.at_end = (line[Len(line)] # NL)])

AkGetline == AkGetlineOf(Lines, MaxLines)

\* the body of the getline loop.  strchr(NULL, ch) is undefined: the process is
\* killed by the fault, or the read gives nothing and the data runs to the
\* end of the line
AkParse ==
    /\ ak.pc = "parse"
    /\ LET r == ParseLine(ak.line) IN
       \E out \in (IF r.kind = "strchr(NULL)" THEN {"SIGSEGV", "NULL"} ELSE {"defined"}),
          fault \in AddKeyFaults(ak.key_idx) :
          AkStep(IF r.kind = "skip" THEN [ak EXCEPT !.pc = "getline", !.line = <<>>]
                 ELSE IF out = "SIGSEGV" THEN [ak EXCEPT !.pc = "crashed", !.line = <<>>]
                 ELSE LET a == np2srv_user_add_auth_key(ak.entries, r.alg, r.data,
                                                        ak.key_idx, fault)
                      IN IF a.killed THEN [ak EXCEPT !.pc = "crashed", !.line = <<>>]
                         ELSE IF a.ok
                         THEN [ak EXCEPT !.pc = "getline", !.line = <<>>,
                                         !.entries = a.entries, !.key_idx = a.key_idx]
                         ELSE [ak EXCEPT !.pc = "returned", !.line = <<>>,
                                         !.rc = SR_ERR_INTERNAL,
                                         !.key_idx = a.key_idx, !.f = "closed"])

(***************************************************************************)
(* np2srv_pubkey_auth_cb: the public key a client offers is compared with   *)
(* the key of the user's authorized_keys file.  A key is its public        *)
(* material and the comment that follows it in a file.                     *)
(***************************************************************************)
MaxFileKeys == 2

PubKeys == {"k1", "k2"}
Comments == {"", "user@host"}
SshKey(pub, comment) == [pub |-> pub, comment |-> comment]
NoKey == SshKey("", "")
\* the files a user can have: the keys of the file in order, or no file
NoFile == [exists |-> FALSE, keys |-> <<>>]
KeyFiles ==
    {NoFile}
    \cup {[exists |-> TRUE, keys |-> ks]
             : ks \in UNION {[1..k -> {SshKey(p, c) : p \in PubKeys, c \in Comments}]
                               : k \in 0..MaxFileKeys}}

SSH_OK == "SSH_OK"
SSH_EOF == "SSH_EOF"
SSH_ERROR == "SSH_ERROR"

\* ssh_pki_import_pubkey_file: the first key of the file
ssh_pki_import_pubkey_file(file, fault) ==
    IF ~file.exists THEN [rc |-> SSH_EOF, pub_key |-> NoKey]
    ELSE IF fault \/ Len(file.keys) = 0 THEN [rc |-> SSH_ERROR, pub_key |-> NoKey]
    ELSE [rc |-> SSH_OK, pub_key |-> file.keys[1]]

\* ssh_key_cmp(k1, k2, SSH_KEY_CMP_PUBLIC): 0 when the public parts are equal
ssh_key_cmp(k1, k2) == IF k1.pub = k2.pub THEN 0 ELSE 1

PkIdle == [pc |-> "idle", found |-> FALSE, file |-> NoFile, key |-> NoKey,
           import |-> "", pub_key |-> NoKey, ret |-> -1]

PkStep(next) ==
    /\ pk' = next
    /\ UNCHANGED <<live, cfg, run, scans, ret, iters, last, hist, rec, clean, dflt, hk, ak>>

\* the end of np2srv_pubkey_auth_cb, had it accepted whatever the comparison gave
Mut_PubkeyVerdict_AcceptAny(key, pub_key) == 0

\* the end of np2srv_pubkey_auth_cb: 0 (accept) when the keys compare equal
PubkeyVerdict(key, pub_key) == IF ssh_key_cmp(key, pub_key) = 0 THEN 0 ELSE 1

\* libnetconf2 calls the callback for the user of a session and the key offered
PkCall ==
    /\ pk.pc = "idle"
    /\ \E found \in BOOLEAN, file \in KeyFiles, pub \in PubKeys :
          PkStep([PkIdle EXCEPT !.pc = "getpwnam", !.found = found,
                                !.file = IF found THEN file ELSE NoFile,
                                !.key = SshKey(pub, "")])

\* getpwnam
PkGetpwnam ==
    /\ pk.pc = "getpwnam"
    /\ PkStep(IF ~pk.found THEN [pk EXCEPT !.pc = "returned", !.ret = 1]
              ELSE [pk EXCEPT !.pc = "asprintf"])

\* asprintf of the path of the key file
PkPath ==
    /\ pk.pc = "asprintf"
    /\ \E mem \in BOOLEAN :
          PkStep(IF mem THEN [pk EXCEPT !.pc = "returned", !.ret = 1]
                 ELSE [pk EXCEPT !.pc = "import"])

\* ssh_pki_import_pubkey_file
PkImport ==
    /\ pk.pc = "import"
    /\ \E fault \in BOOLEAN :
          LET r == ssh_pki_import_pubkey_file(pk.file, fault)
          IN PkStep(IF r.rc # SSH_OK
                    THEN [pk EXCEPT !.pc = "returned", !.import = r.rc, !.ret = 1]
                    ELSE [pk EXCEPT !.pc = "compare", !.import = r.rc,
                                    !.pub_key = r.pub_key])

\* ssh_key_cmp, ssh_key_free and the return
PkCompare ==
    /\ pk.pc = "compare"
    /\ PkStep([pk EXCEPT !.pc = "returned", !.ret = PubkeyVerdict(pk.key, pk.pub_key)])

InitWith(L, C, recording, invocations) ==
    /\ live = L
    /\ cfg = C
    /\ run = Idle
    /\ scans = invocations
    /\ ret = "none"
    /\ iters = 0
    /\ last = NoLast
    /\ hist = <<>>
    /\ rec = recording
    /\ clean = TRUE
    /\ dflt = [l \in ScalarLeaves |-> Unset]
    /\ hk = HkIdle
    /\ ak = AkIdle
    /\ pk = PkIdle

Scan(H) == \E h \in H : OpenScan(h) \/ ScanEvent(h) \/ CloseScan(h)

\* the lifecycle handlers, from the empty server
Init == InitWith(LiveEmpty, CfgEmpty, FALSE, MaxScans)
Next == Scan(LifecycleHandlers)
Spec == Init /\ [][Next]_vars

(***************************************************************************)
(* Lifecycle claims (specification Spec).                                  *)
(***************************************************************************)
EndptCreated ==
    /\ last.kind = "event"
    /\ last.h \in {"np2srv_endpt_ssh_cb", "np2srv_ch_client_endpt_ssh_cb"}
    /\ last.ev.op = SR_OP_CREATED

\* C8: when a live call of the Nth event of a scan fails, the handler returns
\* in that turn, with an error: no later event is treated, and what the earlier
\* events did stays.  Stated of every handler of the specification.
C8_FailedEventEndsScan ==
    (last.kind # "none" /\ ~AllOk(last.calls)) =>
        /\ last.done
        /\ run = Idle
        /\ ret \notin {SR_ERR_OK, "running"}

\* C9: a Created event of a listen endpoint or of a call-home client endpoint
\* issues the creation of the entity of that name and then, never before, the
\* reset of its mask to 0; when both calls succeeded the entity is live and its
\* authentication-method mask is empty.
C9_CreateThenDenyAll ==
    EndptCreated =>
        LET id == last.ev.owner
            calls == last.calls
        IN /\ Len(calls) = 2
           /\ calls[1] = LogCall("add_endpt", id[1], id[2], 0, calls[1].ok)
           /\ calls[2] = LogCall("set_auth_methods", id[1], id[2], 0, calls[2].ok)
           /\ (calls[1].ok /\ calls[2].ok) =>
                 /\ EpPresent(live, id[1], id[2])
                 /\ live.ep[id].auth = 0
                 /\ ~last.done

C9_Witness ==
    /\ EndptCreated
    /\ AllOk(last.calls)
    /\ last.ev.owner = <<"c1", "ep1">>
    /\ live.ep[<<"c1", "ep1">>].present
    /\ live.ep[<<"c1", "ep1">>].auth = 0

ClientCreated ==
    /\ last.kind = "event"
    /\ last.h = "np2srv_ch_client_cb"
    /\ last.ev.op = SR_OP_CREATED

\* C10: a Created event of a call-home client creates the live client and then
\* starts its connection attempts; the attempts are started only when the
\* creation succeeded, and when either step fails the handler returns an
\* error in that turn.
C10_CreateThenDispatch ==
    ClientCreated =>
        LET c == last.ev.key
            calls == last.calls
        IN /\ Len(calls) >= 1
           /\ calls[1] = LogCall("ch_add_client", c, "", 0, calls[1].ok)
           /\ (Len(calls) = 2) = calls[1].ok
           /\ Len(calls) = 2 => calls[2] = LogCall("ch_client_dispatch", c, "", 0, calls[2].ok)
           /\ AllOk(calls) => (~last.done /\ live.ch[c].present /\ live.ch[c].dispatched)
           /\ ~AllOk(calls) => (last.done /\ run = Idle /\ ret = SR_ERR_INTERNAL)

C10_Witness ==
    /\ ClientCreated
    /\ Len(last.calls) = 2
    /\ AllOk(last.calls)
    /\ live.ch[last.ev.key].dispatched

(***************************************************************************)
(* Host-key claims (specification SpecHostkey): one invocation of a        *)
(* host-key handler, its events recorded, on a server with a listen        *)
(* endpoint and a call-home client endpoint, both without host keys.       *)
(***************************************************************************)
HostkeyEps == {<<NoClient, "ep1">>, <<"c1", "ep1">>}

InitHostkey == InitWith(LiveWith(HostkeyEps, {"c1"}), CfgWith(HostkeyEps, {"c1"}), TRUE, 1)
NextHostkey == Scan(HostkeyHandlers)
SpecHostkey == InitHostkey /\ [][NextHostkey]_vars

\* the order the recorded events of endpoint id replay to, from the empty list
RECURSIVE ReplayHist(_, _)
ReplayHist(h, id) ==
    IF h = <<>> THEN <<>>
    ELSE LET ev == h[Len(h)]
             s == ReplayHist(SubSeq(h, 1, Len(h) - 1), id)
         IN IF ev.owner # id THEN s
            ELSE IF ev.op = SR_OP_CREATED THEN ReplayCreated(s, ev.key)
            ELSE IF ev.op = SR_OP_DELETED THEN ReplayDeleted(s, ev.key)
            ELSE IF ev.op = SR_OP_MOVED THEN ReplayMoved(s, ev.key, ev.prev_val)
            ELSE s

\* the host-key event of operation op on key k of endpoint id
HkEv(op, k, prev, id) == Event(op, "host-key", "", 0, k, prev, EpAt(4, id))

Scenario(id) ==
    <<HkEv(SR_OP_CREATED, "k1", "", id), HkEv(SR_OP_CREATED, "k2", "", id),
      HkEv(SR_OP_CREATED, "k3", "", id), HkEv(SR_OP_DELETED, "k1", "", id),
      HkEv(SR_OP_MOVED, "k3", "", id)>>

\* C1: while no live call has failed, the listen endpoint's host-key order is
\* the replay of the events delivered so far (Created appends, Deleted
\* removes, Moved puts the key right after its predecessor, at the head when
\* the predecessor is empty); k1, k2, k3 created, k1 deleted and k3 moved to the
\* head leave <<k3, k2>>.
C1_ListenOrderIsReplay ==
    LET id == <<NoClient, "ep1">> IN
    clean =>
        /\ live.ep[id].hostkeys = ReplayHist(hist, id)
        /\ hist = Scenario(id) => live.ep[id].hostkeys = <<"k3", "k2">>

C1_Witness ==
    /\ clean
    /\ hist = Scenario(<<NoClient, "ep1">>)
    /\ last.h = "np2srv_endpt_ssh_hostkey_cb"
    /\ live.ep[<<NoClient, "ep1">>].hostkeys = <<"k3", "k2">>

CreateMoveDelete(a, b, id) ==
    <<HkEv(SR_OP_CREATED, a, "", id), HkEv(SR_OP_CREATED, b, "", id),
      HkEv(SR_OP_MOVED, b, a, id), HkEv(SR_OP_DELETED, a, "", id)>>

\* C2: Created(A), Created(B), Moved(B, A), Deleted(A) delivered for an empty
\* host-key list, of the listen endpoint or of the call-home client endpoint,
\* leave exactly <<B>>.
C2_CreateMoveDeleteLeavesB ==
    \A id \in HostkeyEps : \A a, b \in KeyNames :
        (clean /\ a # b /\ hist = CreateMoveDelete(a, b, id)) =>
            live.ep[id].hostkeys = <<b>>

C2_Witness ==
    /\ clean
    /\ hist = CreateMoveDelete("k1", "k2", <<"c1", "ep1">>)
    /\ last.h = "np2srv_ch_endpt_ssh_hostkey_cb"
    /\ live.ep[<<"c1", "ep1">>].hostkeys = <<"k2">>

(***************************************************************************)
(* Authentication-method claims (specification SpecAuth): the two          *)
(* authentication-method handlers on a server with a listen endpoint and a *)
(* call-home client endpoint, their masks empty as creation leaves them.   *)
(***************************************************************************)
InitAuth == InitWith(LiveWith(HostkeyEps, {"c1"}), CfgWith(HostkeyEps, {"c1"}), FALSE, 1)
NextAuth == Scan(AuthHandlers)
SpecAuth == InitAuth /\ [][NextAuth]_vars

\* C3: while no live call has failed, an endpoint's live mask is the OR of the
\* bits of the recognized methods (publickey, password, interactive) that were
\* Created and not since Deleted, from the empty mask; unsupported methods
\* count for nothing.
C3_MaskIsOrOfCreated ==
    clean => \A id \in HostkeyEps : live.ep[id].auth = cfg.auth[id]

PasswordEvent ==
    /\ last.kind = "event"
    /\ last.h \in AuthHandlers
    /\ last.ev.schema = "password"
    /\ AllOk(last.calls)

\* C4: a Created event on the leaf `password` leaves the password bit set in
\* the live mask and a Deleted event leaves it clear, as happens with the
\* publickey bit for `publickey`.
C4_PasswordBitFollowsEvent ==
    /\ (PasswordEvent /\ last.ev.op = SR_OP_CREATED) =>
           HasBit(live.ep[last.ev.owner].auth, NC_SSH_AUTH_PASSWORD)
    /\ (PasswordEvent /\ last.ev.op = SR_OP_DELETED) =>
           ~HasBit(live.ep[last.ev.owner].auth, NC_SSH_AUTH_PASSWORD)

(***************************************************************************)
(* Scalar-leaf claims (specification SpecScalar): one invocation of a      *)
(* scalar handler, nested scans included, on a server with a listen        *)
(* endpoint, a call-home client and an endpoint of that client.            *)
(***************************************************************************)
InitScalar == InitWith(LiveWith(HostkeyEps, {"c1"}), CfgWith(HostkeyEps, {"c1"}), FALSE, 1)
NextScalar ==
    \/ Scan(ScalarHandlers)
    \/ KeepalivesEvent
    \/ KeepalivesEnd_
    \/ PeriodicEvent
    \/ PeriodicEnd
SpecScalar == InitScalar /\ [][NextScalar]_vars

\* the last turn treated, without failure, a Deleted event of a scalar leaf
ScalarDeleted ==
    /\ last.kind = "event"
    /\ <<last.h, last.ev.schema>> \in ScalarLeaves
    /\ last.ev.op = SR_OP_DELETED
    /\ ~last.done
    /\ AllOk(last.calls)

\* C5: a Deleted event of a scalar leaf leaves the live value at the leaf's
\* default D whatever it held before: every Deleted event of the same leaf
\* leaves the same live value (the one its first Deleted event left).  Stated
\* of the leaves the handlers treat in their own loops: listen idle-timeout,
\* local and remote address and port, auth max-wait and max-attempts,
\* reconnect start-with and max-attempts.
C5_DeletedRestoresDefault ==
    ScalarDeleted =>
        LET leaf == <<last.h, last.ev.schema>>
        IN /\ dflt[leaf].set
           /\ LiveLeaf(live, last.ev) = dflt[leaf].val

\* C6: when a handler has returned, every change iterator it opened has been
\* released, and none is released twice.
C6_IteratorsReleased ==
    /\ iters >= 0
    /\ run.h = "none" => iters = 0

(***************************************************************************)
(* The host-key callback (specification SpecHostkeyCb).                    *)
(***************************************************************************)
InitHostkeyCb == InitWith(LiveEmpty, CfgEmpty, FALSE, 0)
NextHostkeyCb ==
    \/ HkCall
    \/ HkSessionStart
    \/ HkXpath
    \/ HkGetSubtree
    \/ HkFindNodes
    \/ HkSetAlgorithm
    \/ HkSetData
    \/ HkClimb
    \/ HkFree
SpecHostkeyCb == InitHostkeyCb /\ [][NextHostkeyCb]_vars

\* C7: a call that opened its session ends by returning to its caller, with
\* failure when the subtree is absent, the query failed, a leaf is missing or an
\* allocation failed, having freed the fetched subtree (when there is one)
\* from its document root and closed the session exactly once.
C7_HostkeyCbFailsAndReleases ==
    (hk.pc \in {"returned", "crashed"} /\ hk.why # "session") =>
        /\ hk.pc = "returned"
        /\ hk.why \in {"absent", "query", "leaf", "emem"} => hk.rc = -1
        /\ hk.fetched => (hk.frees = 1 /\ hk.freed_root)
        /\ ~hk.fetched => hk.frees = 0
        /\ hk.stops = 1
        /\ hk.sess = "closed"

(***************************************************************************)
(* Teardown (specification SpecTeardown): the lifecycle handlers on a      *)
(* server whose listen endpoint and call-home client endpoint each hold a  *)
(* host key and the publickey method.                                      *)
(***************************************************************************)
LiveTeardown ==
    [LiveWith(HostkeyEps, {"c1"}) EXCEPT
        !.ep = [id \in EpIds |-> IF id \in HostkeyEps
                                 THEN [@[id] EXCEPT !.hostkeys = <<"k1">>,
                                                    !.auth = NC_SSH_AUTH_PUBLICKEY]
                                 ELSE @[id]]]
CfgTeardown ==
    [CfgWith(HostkeyEps, {"c1"}) EXCEPT
        !.hostkeys = [id \in EpIds |-> IF id \in HostkeyEps THEN <<"k1">> ELSE <<>>],
        !.auth = [id \in EpIds |-> IF id \in HostkeyEps THEN NC_SSH_AUTH_PUBLICKEY ELSE 0]]

InitTeardown == InitWith(LiveTeardown, CfgTeardown, FALSE, MaxScans)
NextTeardown == Scan(LifecycleHandlers)
SpecTeardown == InitTeardown /\ [][NextTeardown]_vars

\* C11: while no live call has failed, the live endpoints and call-home
\* clients are exactly the names Created and not since Deleted (a client's
\* deletion takes its endpoints along), a deleted entity holds nothing, and an
\* entity created again holds no host key and no method of its former self.
C11_LiveEntitiesAreConfigured ==
    clean =>
        /\ \A c \in ClientNames : ClPresent(live, c) = cfg.ch[c]
        /\ \A c \in ClientNames : ~cfg.ch[c] => live.ch[c] = Absent
        /\ \A id \in EpIds :
              IF cfg.ep[id]
              THEN /\ EpPresent(live, id[1], id[2])
                   /\ live.ep[id].hostkeys = cfg.hostkeys[id]
                   /\ live.ep[id].auth = cfg.auth[id]
              ELSE live.ep[id] = Absent

\* the listen endpoint ep1 was deleted and created again, the client c1 deleted
C11_Witness ==
    /\ clean
    /\ ~ClPresent(live, "c1")
    /\ live.ep[<<"c1", "ep1">>] = Absent
    /\ EpPresent(live, NoClient, "ep1")
    /\ live.ep[<<NoClient, "ep1">>].hostkeys = <<>>
    /\ live.ep[<<NoClient, "ep1">>].auth = 0

(***************************************************************************)
(* Authentication methods, frame (specifications SpecAuth and SpecAuthOob; *)
(* in the second the live masks also change out of band while a handler    *)
(* runs).                                                                  *)
(***************************************************************************)
AuthEvent ==
    /\ last.kind = "event"
    /\ last.h \in AuthHandlers

\* the events that are no Create or Delete of a recognized method
NoToggle(ev) ==
    \/ ev.schema \in {"hostbased", "none"}
    \/ ev.schema = "other" /\ ev.str # "interactive"
    \/ ev.op = SR_OP_MODIFIED

\* C12: for an event on hostbased or none, on other with a value that is not
\* "interactive", and for any Modified event, the mask written back is the
\* mask read, and the live mask is left as it was read.
C12_UnsupportedLeavesMask ==
    (AuthEvent /\ NoToggle(last.ev)) =>
        /\ last.calls[2].n = last.calls[1].n
        /\ live.ep[last.ev.owner].auth = last.calls[1].n

C12_Witness ==
    /\ AuthEvent
    /\ last.ev.schema = "other"
    /\ last.ev.str = "foo"
    /\ last.ev.op = SR_OP_CREATED
    /\ AllOk(last.calls)
    /\ last.calls[1].n = NC_SSH_AUTH_PUBLICKEY + NC_SSH_AUTH_INTERACTIVE
    /\ live.ep[last.ev.owner].auth = NC_SSH_AUTH_PUBLICKEY + NC_SSH_AUTH_INTERACTIVE

\* another thread of the server changes the methods of a live endpoint while
\* an authentication-method handler is between two events
\* (the endpoint is one of the running handler's; the run follows one more
\* event after the change)
OutOfBand ==
    /\ run.h \in AuthHandlers
    /\ run.n >= 1
    /\ run.n < MaxEvents
    /\ \E id \in HostkeyEps, auth \in 0..AllAuth :
          /\ (id[1] = NoClient) = (run.h = "np2srv_endpt_ssh_auth_methods_cb")
          /\ auth # live.ep[id].auth
          /\ live' = [live EXCEPT !.ep[id].auth = auth]
    /\ run' = [run EXCEPT !.n = MaxEvents - 1]
    /\ UNCHANGED <<cfg, scans, ret, iters, last, hist, rec, clean, dflt, hk, ak, pk>>

NextAuthOob == Scan(AuthHandlers) \/ OutOfBand
SpecAuthOob == InitAuth /\ [][NextAuthOob]_vars

\* the step is a turn of the loop of an authentication-method handler (an
\* out-of-band change leaves `last` and changes `live`)
AuthTurn ==
    /\ run.h \in AuthHandlers
    /\ last'.kind = "event"
    /\ last' = last => live' = live
    /\ run'.h = "none" => last'.done
    /\ run'.h # "none" => run'.n = run.n + 1

\* C13: in each turn the mask read is the mask the live server holds at that
\* moment, whoever set it, and the mask written back differs from it in no bit
\* but the one the event targets; when the write succeeds it is the live mask.
C13_RereadAndSingleBit ==
    [][AuthTurn =>
        LET id == last'.ev.owner
            read == last'.calls[1].n
            written == last'.calls[2].n
            target == MethodBit(last'.ev.schema, last'.ev.str)
        IN /\ read = live.ep[id].auth
           /\ \A bit \in {NC_SSH_AUTH_PUBLICKEY, NC_SSH_AUTH_PASSWORD,
                          NC_SSH_AUTH_INTERACTIVE} :
                 bit # target => HasBit(written, bit) = HasBit(live.ep[id].auth, bit)
           /\ last'.calls[2].ok => live'.ep[id].auth = written]_vars

\* publickey is created while the live mask holds password and interactive,
\* which no event of the configuration ever set
C13_Witness ==
    /\ AuthEvent
    /\ last.ev.schema = "publickey"
    /\ last.ev.op = SR_OP_CREATED
    /\ cfg.auth[last.ev.owner] = NC_SSH_AUTH_PUBLICKEY
    /\ last.calls[1].n = NC_SSH_AUTH_PASSWORD + NC_SSH_AUTH_INTERACTIVE
    /\ last.calls[2].n = AllAuth
    /\ live.ep[last.ev.owner].auth = AllAuth

(***************************************************************************)
(* Scalar leaves, Created and Modified (specification SpecScalar).         *)
(***************************************************************************)
\* the last turn treated, without failure, a Created or Modified event of a
\* scalar leaf
ScalarSet ==
    /\ last.kind = "event"
    /\ <<last.h, last.ev.schema>> \in ScalarLeaves
    /\ last.ev.op \in {SR_OP_CREATED, SR_OP_MODIFIED}
    /\ ~last.done
    /\ AllOk(last.calls)

\* the value an event carries, as the live server holds it
Carried(ev) ==
    IF ev.schema = "start-with"
    THEN Val(0, CASE ev.str = "first-listed" -> "NC_CH_FIRST_LISTED"
                  [] ev.str = "last-connected" -> "NC_CH_LAST_CONNECTED"
                  [] ev.str = "random-selection" -> "NC_CH_RANDOM"
                  [] OTHER -> "")
    ELSE Val(ev.num, ev.str)

\* one event of every scalar leaf of the configuration of InitScalar
ScalarProbes ==
    {g.ev : g \in {x \in UNION {Gen(h, CfgWith(HostkeyEps, {"c1"})) : h \in ScalarHandlers} :
                      /\ x.ev.op = SR_OP_CREATED
                      /\ \E h \in ScalarHandlers : <<h, x.ev.schema>> \in ScalarLeaves}}

\* C14: for Created and Modified events of a scalar leaf (listen idle-timeout,
\* local and remote address and port, auth max-wait and max-attempts,
\* reconnect start-with and max-attempts) the live value is the value the
\* last such event of the leaf carried: a turn that treats such an event
\* without failure leaves the carried value live, and the live value of a
\* leaf changes only in a turn that treats an event of that leaf.
C14_LiveIsLastCarried ==
    [][/\ ScalarSet' => LiveLeaf(live', last'.ev) = Carried(last'.ev)
       /\ \A p \in ScalarProbes :
             LiveLeaf(live', p) # LiveLeaf(live, p) =>
                 /\ last'.kind = "event"
                 /\ <<last'.h, last'.ev.schema>> \in ScalarLeaves
                 /\ last'.ev.schema = p.schema
                 /\ last'.ev.owner = p.owner]_vars

\* a handler returned success after the Modified event of a leaf that held
\* another value
C14_Witness ==
    /\ ScalarSet
    /\ last.ev.op = SR_OP_MODIFIED
    /\ last.ev.schema \in {"idle-timeout", "remote-port", "start-with"}
    /\ run.h = "none"
    /\ ret = SR_ERR_OK
    /\ LiveLeaf(live, last.ev) = Carried(last.ev)
    /\ LiveLeaf(LiveWith(HostkeyEps, {"c1"}), last.ev) # Carried(last.ev)

(***************************************************************************)
(* Return codes of the lifecycle handlers (specification Spec).            *)
(***************************************************************************)
\* C15: a handler returns success if and only if its scan ended with the
\* exhausted status and every live call it made succeeded; a failed live
\* call, the reset of the methods of a created endpoint included, yields an
\* error return.  Of the first invocation: once it has returned, it returned
\* SR_ERR_OK only if none of its live calls failed.
C15_SuccessOnlyIfEveryCallSucceeded ==
    (run.h = "none" /\ scans = MaxScans - 1 /\ ret = SR_ERR_OK) => clean

\* C16: every collaborator failure inside a handler (the iterator could not
\* be opened, the iterator ended with a status other than exhaustion, a live
\* setter failed) is returned as the one internal error code: a host-key
\* handler that returned an error returned SR_ERR_INTERNAL.
C16_FailureIsInternalError ==
    (run.h = "none" /\ ret \notin {"none", "running", SR_ERR_OK}) => ret = SR_ERR_INTERNAL

(***************************************************************************)
(* Key type of a host key (specification SpecHostkeyCb).                   *)
(***************************************************************************)
\* the callback is past the test of the algorithm of the subtree it fetched
HkPastAlgorithm ==
    /\ hk.fetched
    /\ hk.why # "leaf"
    /\ hk.pc \notin {"find", "algorithm"}

\* C17: the key type follows the prefix of the name of the algorithm
\* identity: rsa... gives NC_SSH_KEY_RSA, secp... gives NC_SSH_KEY_ECDSA, any
\* other name makes the resolution fail with no key data and no key type
\* given.
C17_KeyTypeByPrefix ==
    HkPastAlgorithm =>
        CASE hk.store.alg = "rsa2048" ->
                 hk.privkey_type = NC_SSH_KEY_RSA /\ hk.why # "algorithm"
          [] hk.store.alg = "secp256r1" ->
                 hk.privkey_type = NC_SSH_KEY_ECDSA /\ hk.why # "algorithm"
          [] OTHER ->
                 /\ hk.why = "algorithm"
                 /\ hk.rc = -1
                 /\ hk.privkey_data = ""
                 /\ hk.privkey_type = ""

\* the callback returned for a key of an algorithm that is neither
C17_Witness ==
    /\ hk.pc = "returned"
    /\ hk.store.alg = "ed25519"
    /\ hk.why = "algorithm"
    /\ hk.rc = -1
    /\ hk.privkey_data = ""

(***************************************************************************)
(* The ancestor walk (specification SpecWalk): one invocation of a handler *)
(* of an endpoint subtree, listen or call-home.                            *)
(***************************************************************************)
WalkHandlers ==
    {"np2srv_endpt_ssh_cb", "np2srv_ch_client_endpt_ssh_cb",
     "np2srv_endpt_ssh_keepalives_cb", "np2srv_ch_endpt_ssh_keepalives_cb"}
    \cup HostkeyHandlers \cup AuthHandlers

InitWalk == InitWith(LiveWith(HostkeyEps, {"c1"}), CfgWith(HostkeyEps, {"c1"}), FALSE, 1)
NextWalk == Scan(WalkHandlers)
SpecWalk == InitWalk /\ [][NextWalk]_vars

\* C18: for a tree of the shape of the schema, the walk of a handler up its
\* fixed number of parent links gives the name of the endpoint the changed
\* node belongs to and, in a call-home handler, two links further up, the
\* name of its client: every live call of a turn is made for the endpoint
\* (and client) that owns the node of the event.
C18_WalkGivesOwner ==
    (last.kind = "event" /\ last.h \in WalkHandlers) =>
        \A i \in 1..Len(last.calls) :
            /\ last.calls[i].c = last.ev.owner[1]
            /\ last.calls[i].e = last.ev.owner[2]

\* a call-home handler set the methods of endpoint ep1 of client c1, seven and
\* five links above the node
C18_Witness ==
    /\ last.kind = "event"
    /\ last.h = "np2srv_ch_endpt_ssh_auth_methods_cb"
    /\ Len(last.ev.anc) = 7
    /\ Len(last.calls) = 2
    /\ last.calls[2].ok
    /\ last.calls[2].c = "c1"
    /\ last.calls[2].e = "ep1"

(***************************************************************************)
(* The authorized keys of a user (specification SpecKeys).                 *)
(***************************************************************************)
InitKeys == InitWith(LiveEmpty, CfgEmpty, FALSE, 0)
NextKeys ==
    \/ AkCall
    \/ AkGetpwent
    \/ AkFopen
    \/ AkGetline
    \/ AkParse
SpecKeys == InitKeys /\ [][NextKeys]_vars

\* a line without its newline
Chomp(line) ==
    IF Len(line) > 0 /\ line[Len(line)] = NL THEN SubSeq(line, 1, Len(line) - 1) ELSE line

\* the last character of the token that starts at p
TokenEnd(b, p) ==
    LET sps == {i \in p..Len(b) : b[i] = " "}
    IN IF sps = {} THEN Len(b) ELSE (CHOOSE i \in sps : \A j \in sps : i <= j) - 1

\* the start of the first token from p on, 0 when there is none
TokenFrom(b, p) ==
    LET starts == {i \in p..Len(b) : b[i] # " "}
    IN IF starts = {} THEN 0 ELSE CHOOSE i \in starts : \A j \in starts : i <= j

\* the starts of the algorithm tokens (ssh-dss, ssh-rsa, or a token that
\* begins with ecdsa) that a data token follows
AlgTokens(b) ==
    {p \in 1..Len(b) :
        /\ p = 1 \/ b[p - 1] = " "
        /\ b[p] = "ecdsa" \/ (b[p] \in {"ssh-dss", "ssh-rsa"} /\ TokenEnd(b, p) = p)
        /\ TokenFrom(b, TokenEnd(b, p) + 1) # 0}

\* the key a line of a key file stands for: none for an empty line, a comment
\* and a line without a recognized algorithm and its data
ExpectedKey(line) ==
    LET b == Chomp(line)
        p == CHOOSE i \in AlgTokens(b) : \A j \in AlgTokens(b) : i <= j
        d == TokenFrom(b, TokenEnd(b, p) + 1)
    IN IF b = <<>> THEN [kind |-> "none"]
       ELSE IF b[1] = "#" \/ AlgTokens(b) = {} THEN [kind |-> "none"]
       ELSE [kind |-> "key", alg |-> SubSeq(b, p, TokenEnd(b, p)),
             data |-> SubSeq(b, d, TokenEnd(b, d))]

\* C19: the keys of a file are one entry for each line that is not empty, is
\* not a comment and holds a recognized algorithm token followed by a data
\* token, both copied as they are; any other line is passed over without
\* error.  Of every line the handler treats: it adds the entry key<n> of the
\* line's algorithm and data (or fails for want of memory), or adds nothing
\* and goes on when the line stands for no key.
C19_OneEntryPerKeyLine ==
    [][ak.pc = "parse" =>
          LET e == ExpectedKey(ak.line) IN
          IF e.kind = "none"
          THEN ak'.pc = "getline" /\ ak'.entries = ak.entries
          ELSE \/ ak'.pc = "returned" /\ ak'.rc = SR_ERR_INTERNAL
               \/ /\ ak'.pc = "getline"
                  /\ ak'.entries = Append(ak.entries,
                                          [name |-> <<"key", Len(ak.entries) + 1>>,
                                           algorithm |-> e.alg, key_data |-> e.data])]_vars

\* a line of the form <algorithm> <data> and the newline
TwoTokenLine(line) ==
    /\ Len(line) >= 4
    /\ line[1] \in AlgPrefixes
    /\ line[2] = " "
    /\ line[Len(line)] = NL
    /\ \A i \in 3..(Len(line) - 1) : line[i] # " "

\* C20: for a line <algorithm> <data> that the newline follows directly, the
\* entry's key data is <data>, without the newline (or the handler fails for
\* want of memory).
C20_DataEndsAtNewline ==
    [][(ak.pc = "parse" /\ TwoTokenLine(ak.line)) =>
          \/ ak'.pc = "returned" /\ ak'.rc = SR_ERR_INTERNAL
          \/ /\ ak'.pc = "getline"
             /\ Len(ak'.entries) = Len(ak.entries) + 1
             /\ ak'.entries[Len(ak'.entries)].key_data
                    = SubSeq(ak.line, 3, Len(ak.line) - 1)]_vars

(***************************************************************************)
(* The names of the keys (specification SpecKeyNames): files of up to      *)
(* MaxKeys lines that each hold a key, for up to MaxAccounts accounts.     *)
(***************************************************************************)
KeyLines == {<<"ssh-rsa", " ", "A", " ", NL>>}

InitKeyNames == InitWith(LiveEmpty, CfgEmpty, FALSE, 0)
NextKeyNames ==
    \/ AkCall
    \/ AkGetpwentOf(MaxAccounts)
    \/ AkFopen
    \/ AkGetlineOf(KeyLines, MaxKeys)
    \/ AkParse
SpecKeyNames == InitKeyNames /\ [][NextKeyNames]_vars

\* C21: within one account the k-th recognized key of the file is named
\* key<k>, for every k >= 1 and however many keys the file holds, and the
\* index restarts at 1 for each account: the turn of the loop on a line that
\* holds a key adds an entry named by the number of keys the user then has
\* (or the handler fails for want of memory).
C21_KthKeyIsNamedKeyK ==
    [][(ak.pc = "parse" /\ ParseLine(ak.line).kind = "key") =>
          \/ ak'.pc = "returned" /\ ak'.rc = SR_ERR_INTERNAL
          \/ /\ ak'.pc = "getline"
             /\ Len(ak'.entries) = Len(ak.entries) + 1
             /\ ak'.entries[Len(ak'.entries)].name = <<"key", Len(ak'.entries)>>]_vars

\* C22: every account gets a user entry, also one without a key file: a key
\* file that does not exist leaves the user without keys and the enumeration
\* goes on, any other failure of fopen ends the enumeration with an error.
C22_MissingFileIsNoError ==
    [][ak.pc = "fopen" =>
          /\ ak'.users = ak.users
          /\ ak'.f = "ENOENT" => (ak'.pc = "getpwent" /\ ak'.entries = <<>>)
          /\ ak'.f = "EACCES" => (ak'.pc = "returned" /\ ak'.rc = SR_ERR_INTERNAL)]_vars

(***************************************************************************)
(* Public-key authentication (specification SpecPubkey).                   *)
(***************************************************************************)
InitPubkey == InitWith(LiveEmpty, CfgEmpty, FALSE, 0)
NextPubkey ==
    \/ PkCall
    \/ PkGetpwnam
    \/ PkPath
    \/ PkImport
    \/ PkCompare
SpecPubkey == InitPubkey /\ [][NextPubkey]_vars

\* C23: the callback accepts (returns 0) if and only if the account exists,
\* its key file was imported and the first key of the file has the public
\* material of the offered key; a key at a later position of the file does
\* not count, and a failed lookup or import rejects.
C23_AcceptIffFirstKeyMatches ==
    pk.pc = "returned" =>
        /\ pk.ret \in {0, 1}
        /\ pk.ret = 0 <=> /\ pk.found
                          /\ pk.import = SSH_OK
                          /\ pk.file.exists
                          /\ Len(pk.file.keys) >= 1
                          /\ pk.file.keys[1].pub = pk.key.pub

\* the offered key is the second key of the file and is rejected
C23_Witness ==
    /\ pk.pc = "returned"
    /\ pk.ret = 1
    /\ pk.import = SSH_OK
    /\ Len(pk.file.keys) = 2
    /\ pk.file.keys[2].pub = pk.key.pub
    /\ pk.file.keys[1].pub # pk.key.pub

(***************************************************************************)
(* The connection type of a call-home client (specification SpecScalar).   *)
(***************************************************************************)
\* the last turn was one of the loop of np2srv_ch_connection_type_cb
ConnTypeEvent ==
    /\ last.kind = "event"
    /\ last.h = "np2srv_ch_connection_type_cb"

\* C24: a Created event on `persistent` makes the client's connection type
\* NC_CH_PERSIST and one on `periodic` NC_CH_PERIOD; a Modified event the
\* handler treats is on `periodic`, so its assertion holds.
C24_CreatedBranchSetsType ==
    ConnTypeEvent =>
        /\ (last.ev.op = SR_OP_CREATED /\ AllOk(last.calls)) =>
               live.ch[last.ev.owner[1]].conn_type =
                   (IF last.ev.schema = "persistent" THEN "NC_CH_PERSIST" ELSE "NC_CH_PERIOD")
        /\ last.ev.op = SR_OP_MODIFIED =>
               (last.ev.schema = "periodic" /\ last.rc # "SIGABRT")

\* a client of the persistent type got the periodic type
C24_Witness ==
    /\ ConnTypeEvent
    /\ last.ev.op = SR_OP_CREATED
    /\ last.ev.schema = "periodic"
    /\ Len(last.calls) = 1
    /\ last.calls[1].ok
    /\ live.ch[last.ev.owner[1]].conn_type = "NC_CH_PERIOD"

\* C25: the period of a `periodic` container applies also when the container
\* is itself created in the change-set: once the handler has returned success
\* after the Created event of a `periodic` container that holds the period P,
\* the live period of the client is P.
C25_CreatedPeriodicAppliesPeriod ==
    (/\ ConnTypeEvent
     /\ last.ev.op = SR_OP_CREATED
     /\ last.ev.schema = "periodic"
     /\ last.ev.num \in NumVals
     /\ run.h = "none"
     /\ ret = SR_ERR_OK) =>
        live.ch[last.ev.owner[1]].period = last.ev.num

(***************************************************************************)
(* C26: the defaults a Deleted event puts back.                            *)
(***************************************************************************)
\* the step is a turn, on a Deleted event, of a handler loop that has defaults
DeletedTurn ==
    /\ last'.ev.op = SR_OP_DELETED
    /\ \/ /\ run.h \in {"np2srv_endpt_ssh_keepalives_cb", "np2srv_ch_endpt_ssh_keepalives_cb",
                         "np2srv_ch_reconnect_strategy_cb"}
          /\ last'.kind = "event"
          /\ run'.h = "none" => last'.done
          /\ run'.h # "none" => run'.n = run.n + 1
       \/ /\ run.nest.fn = "periodic"
          /\ last'.kind = "nested"
          /\ run'.nest.fn = "periodic" => run'.nest.k = run.nest.k + 1
       \/ /\ run.nest.fn = "keepalives"
          /\ last'.kind = "nested"
          /\ run'.nest.k = run.nest.k + 1

\* the turn made the one live call fn with the value n, and the live state is
\* L1 when the call succeeded and as before when it failed
DeletedPushes(fn, n, L1) ==
    /\ Len(last'.calls) = 1
    /\ last'.calls[1].fn = fn
    /\ last'.calls[1].n = n
    /\ live' = IF last'.calls[1].ok THEN L1 ELSE live

\* C26: a Deleted event puts back exactly these defaults: authentication
\* max-wait 30 and max-attempts 3, periodic period 60, anchor-time 0 and
\* idle-timeout 120, start-with first-listed, reconnect max-attempts 3,
\* keepalive idle-time 1, max-probes 10 and probe-interval 5; the turn sets the
\* default of its own leaf and the value of no other field.
C26_DeletedPutsBackDefault ==
    [][DeletedTurn =>
        LET leaf == last'.ev.schema
            c == last'.calls[1].c
            e == last'.calls[1].e
        IN IF run.nest.fn = "keepalives" THEN
               /\ live' = live
               /\ run'.nest =
                     [run.nest EXCEPT
                        !.idle_time = IF leaf = "idle-time" THEN 1 ELSE @,
                        !.max_probes = IF leaf = "max-probes" THEN 10 ELSE @,
                        !.probe_interval = IF leaf = "probe-interval" THEN 5 ELSE @,
                        !.k = @ + 1]
           ELSE IF run.nest.fn = "periodic" THEN
               CASE leaf = "period" ->
                      DeletedPushes("periodic_set_period", 60,
                                    [live EXCEPT !.ch[c].period = 60])
                 [] leaf = "anchor-time" ->
                      DeletedPushes("periodic_set_anchor_time", 0,
                                    [live EXCEPT !.ch[c].anchor_time = 0])
                 [] leaf = "idle-timeout" ->
                      DeletedPushes("periodic_set_idle_timeout", 120,
                                    [live EXCEPT !.ch[c].idle_timeout = 120])
           ELSE IF run.h = "np2srv_ch_reconnect_strategy_cb" THEN
               CASE leaf = "start-with" ->
                      /\ e = "NC_CH_FIRST_LISTED"
                      /\ DeletedPushes("set_start_with", 0,
                                       [live EXCEPT !.ch[c].start_with = "NC_CH_FIRST_LISTED"])
                 [] leaf = "max-attempts" ->
                      DeletedPushes("set_max_attempts", 3,
                                    [live EXCEPT !.ch[c].max_attempts = 3])
           ELSE
               CASE leaf = "max-wait" ->
                      DeletedPushes("set_auth_timeout", 30,
                                    [live EXCEPT !.ep[<<c, e>>].auth_timeout = 30])
                 [] leaf = "max-attempts" ->
                      DeletedPushes("set_auth_attempts", 3,
                                    [live EXCEPT !.ep[<<c, e>>].auth_attempts = 3])
    ]_vars

\* a Deleted event of the periodic idle-timeout was treated while the period
\* held a configured value
C26_Witness ==
    /\ last.kind = "nested"
    /\ last.ev.op = SR_OP_DELETED
    /\ last.ev.schema = "idle-timeout"
    /\ Len(last.calls) = 1
    /\ last.calls[1].ok
    /\ live.ch[last.calls[1].c].idle_timeout = 120
    /\ live.ch[last.calls[1].c].period \in NumVals

(***************************************************************************)
(* C27: the keepalive-parameter scan.                                      *)
(***************************************************************************)
\* the parameter of the keepalive scan a leaf name stands for
KaParams == {"idle_time", "max_probes", "probe_interval"}
KaParamOf(leaf) ==
    CASE leaf = "idle-time" -> "idle_time"
      [] leaf = "max-probes" -> "max_probes"
      [] leaf = "probe-interval" -> "probe_interval"

\* C27: a turn of the keepalive scan stores the value of its event in the
\* parameter of its leaf (so the last event of a parameter wins), keeps the
\* other parameters and changes nothing in the live server.  The end of the
\* scan either reports an iterator error, with no live call and the live state
\* unchanged, or makes exactly one live call, after which each parameter holds
\* the gathered value, or its former live value when no event gave one (-1),
\* and nothing else in the live server has changed.
C27_OneCallAfterTheScan ==
    [][run.nest.fn = "keepalives" =>
        IF run'.nest.fn = "keepalives" THEN
            LET ev == last'.ev
                p == KaParamOf(ev.schema)
            IN /\ live' = live
               /\ last'.calls = <<>>
               /\ ev.op # SR_OP_DELETED => run'.nest[p] = ev.num
               /\ \A q \in KaParams \ {p} : run'.nest[q] = run.nest[q]
        ELSE
            LET id == <<run.nest.c, run.nest.e>>
                kept(q) == IF run.nest[q] = -1 THEN live.ep[id][q] ELSE run.nest[q]
            IN IF last'.calls = <<>>
               THEN live' = live /\ last'.done /\ ret' \in IterErrs
               ELSE /\ Len(last'.calls) = 1
                    /\ last'.calls[1].fn = "set_keepalives"
                    /\ <<last'.calls[1].c, last'.calls[1].e>> = id
                    /\ live' = IF last'.calls[1].ok
                               THEN [live EXCEPT !.ep[id].idle_time = kept("idle_time"),
                                                 !.ep[id].max_probes = kept("max_probes"),
                                                 !.ep[id].probe_interval = kept("probe_interval")]
                               ELSE live
    ]_vars

\* a keepalive scan has ended in a live call that succeeded, after which
\* idle-time holds a value an event carried
C27_Witness ==
    /\ last.kind = "nested"
    /\ Len(last.calls) = 1
    /\ last.calls[1].fn = "set_keepalives"
    /\ last.calls[1].ok
    /\ LET r == live.ep[<<last.calls[1].c, last.calls[1].e>>]
       IN r.idle_time = 102 /\ r.max_probes = 10 /\ r.probe_interval = 5

(***************************************************************************)
(* C28: enabling and disabling keepalives.                                 *)
(***************************************************************************)
\* the step is a turn of a TCP-parameters handler on the `keepalives` node
KeepalivesNodeTurn ==
    /\ run.h \in {"np2srv_endpt_tcp_params_cb", "np2srv_ch_client_endpt_tcp_params_cb"}
    /\ run.nest.fn = "none"
    /\ last'.kind = "event"
    /\ last'.ev.schema = "keepalives"
    /\ run'.h = "none" => last'.done
    /\ run'.h # "none" => run'.n = run.n + 1

\* C28: a turn on the `keepalives` node makes one live call when the node is
\* Created (enable) or Deleted (disable), on the endpoint the event belongs
\* to, and none otherwise; the turn applies no keepalive parameter, so the
\* parameters are applied after the call; when the call fails the handler
\* returns SR_ERR_INTERNAL and the parameter scan is not entered.
C28_ToggleBeforeParameters ==
    [][KeepalivesNodeTurn =>
        LET ev == last'.ev
            id == ev.owner
            calls == last'.calls
            Params(r) == <<r.idle_time, r.max_probes, r.probe_interval>>
        IN /\ IF ev.op \in {SR_OP_CREATED, SR_OP_DELETED}
              THEN /\ Len(calls) = 1
                   /\ calls[1].fn = "enable_keepalives"
                   /\ <<calls[1].c, calls[1].e>> = id
                   /\ calls[1].n = (IF ev.op = SR_OP_CREATED THEN 1 ELSE 0)
                   /\ live' = IF calls[1].ok
                              THEN [live EXCEPT !.ep[id].ka = (ev.op = SR_OP_CREATED)]
                              ELSE live
                   /\ ~calls[1].ok =>
                          /\ run'.h = "none"
                          /\ ret' = SR_ERR_INTERNAL
              ELSE calls = <<>> /\ live' = live
           /\ run'.nest.fn = "keepalives" =>
                 /\ AllOk(calls)
                 /\ <<run'.nest.c, run'.nest.e>> = id
                 /\ Params(run'.nest) = <<-1, -1, -1>>
    ]_vars

\* keepalives were enabled for an endpoint and the parameter scan that
\* followed has applied a parameter to it
C28_Witness ==
    /\ last.kind = "nested"
    /\ last.calls # <<>>
    /\ last.calls[1].fn = "set_keepalives"
    /\ last.calls[1].ok
    /\ LET r == live.ep[<<last.calls[1].c, last.calls[1].e>>]
       IN r.ka /\ r.max_probes \in NumVals

(***************************************************************************)
(* C29: one change-set that creates a listen endpoint and authentication   *)
(* flags under it.  Each of the two handlers subscribed to the change-set  *)
(* is invoked once, in either order, and is given the events of its own    *)
(* subtree, in any order; no call fails for a reason outside the handlers. *)
(* Here cfg is the configuration the change-set commits and hist the       *)
(* events of the change-set delivered so far.                              *)
(***************************************************************************)
ChangeSetEndpt == <<NoClient, "ep1">>
ChangeSetHandlers == {"np2srv_endpt_ssh_cb", "np2srv_endpt_ssh_auth_methods_cb"}

\* the events of the change-set the subscription of handler h delivers
ChangeSetEvents(h) ==
    IF h = "np2srv_endpt_ssh_cb"
    THEN {Event(SR_OP_CREATED, "ssh", "", 0, "", "", EpAt(1, ChangeSetEndpt))}
    ELSE {Event(SR_OP_CREATED, m[1], m[2], 0, "", "", EpAt(5, ChangeSetEndpt))
            : m \in {x \in MethodLeaves :
                        HasBit(cfg.auth[ChangeSetEndpt], MethodBit(x[1], x[2]))}}

\* handler h is called for the change-set
ChangeSetOpen(h) ==
    /\ run.h = "none"
    /\ scans > 0
    /\ ChangeSetEvents(h) \cap Range(hist) = {}
    /\ scans' = scans - 1
    /\ run' = [Idle EXCEPT !.h = h]
    /\ iters' = iters + 1
    /\ ret' = "running"
    /\ last' = NoLast
    /\ UNCHANGED <<live, cfg, hist, rec, clean, dflt, hk, ak, pk>>

\* one turn of the loop of handler h, on an event not yet delivered
ChangeSetEvent(h) ==
    /\ run.h = h
    /\ \E ev \in ChangeSetEvents(h) \ Range(hist) :
          LET r == Body(h, live, ev, NoFault)
          IN /\ live' = r.L
             /\ iters' = iters + r.opened - r.freed
             /\ run' = IF r.done THEN Idle ELSE [run EXCEPT !.n = @ + 1]
             /\ ret' = IF r.done THEN r.rc ELSE ret
             /\ last' = [kind |-> "event", h |-> h, ev |-> ev, calls |-> r.calls,
                         done |-> r.done, rc |-> r.rc]
             /\ hist' = Append(hist, ev)
             /\ clean' = (clean /\ ~r.done /\ AllOk(r.calls))
    /\ UNCHANGED <<cfg, scans, rec, dflt, hk, ak, pk>>

\* handler h has been given every event of its subtree and returns
ChangeSetClose(h) ==
    /\ run.h = h
    /\ ChangeSetEvents(h) \subseteq Range(hist)
    /\ ret' = SR_ERR_OK
    /\ iters' = iters - 1
    /\ run' = Idle
    /\ UNCHANGED <<live, cfg, scans, last, hist, rec, clean, dflt, hk, ak, pk>>

InitChangeSet ==
    \E M \in 1..AllAuth :
        InitWith(LiveEmpty, [CfgEmpty EXCEPT !.ep[ChangeSetEndpt] = TRUE,
                                             !.auth[ChangeSetEndpt] = M], TRUE, 2)
NextChangeSet ==
    \E h \in ChangeSetHandlers : ChangeSetOpen(h) \/ ChangeSetEvent(h) \/ ChangeSetClose(h)
SpecChangeSet == InitChangeSet /\ [][NextChangeSet]_vars

\* C29: once both handlers have been invoked for the change-set and have
\* returned, in whichever order, the endpoint is live and its mask is the
\* mask M of the flags the change-set created.
C29_FinalMaskIsM ==
    (run.h = "none" /\ scans = 0) =>
        /\ live.ep[ChangeSetEndpt].present
        /\ live.ep[ChangeSetEndpt].auth = cfg.auth[ChangeSetEndpt]

(***************************************************************************)
(* C30: two listen endpoints and two call-home clients are configured and  *)
(* live; the handlers with a nested scan are invoked.                      *)
(***************************************************************************)
NestingHandlers == {"np2srv_endpt_tcp_params_cb", "np2srv_ch_connection_type_cb"}

InitTwoEntities ==
    InitWith(LiveWith(ListenIds, ClientNames), CfgWith(ListenIds, ClientNames), FALSE, 1)
NextTwoEntities ==
    \/ Scan(NestingHandlers)
    \/ KeepalivesEvent
    \/ KeepalivesEnd_
    \/ PeriodicEvent
    \/ PeriodicEnd
SpecTwoEntities == InitTwoEntities /\ [][NextTwoEntities]_vars

\* C30: the values a nested scan applies to an endpoint (a client) come only
\* from events under that endpoint (client): every event a turn of the
\* keepalive-parameter scan or of the periodic-parameter scan takes its value
\* from has, as its own ancestor, the entity the scan was started for.
C30_NestedEventsAreOwn ==
    [][(/\ run.nest.fn # "none"
        /\ last'.kind = "nested"
        /\ last'.ev # NoEvent) =>
            last'.ev.owner = <<run.nest.c, run.nest.e>>
    ]_vars

(***************************************************************************)
(* C31: a handler invocation in which no collaborator call fails.  Every   *)
(* handler is invoked on the configured server; the steps in which sysrepo,*)
(* asprintf or the live server report a failure are left out.  The handler *)
(* is sequential code that nothing blocks, so its next step is eventually  *)
(* taken (weak fairness); its scan is finite.                              *)
(***************************************************************************)
AllHandlers == LifecycleHandlers \cup HostkeyHandlers \cup AuthHandlers \cup ScalarHandlers

\* no call of the step failed: every live call it made succeeded and the
\* handler did not return an error
NoCallFails ==
    /\ AllOk(last'.calls)
    /\ ret' \in {"running", SR_ERR_OK}

InitSuccess == InitWith(LiveWith(HostkeyEps, {"c1"}), CfgWith(HostkeyEps, {"c1"}), FALSE, 1)
NextSuccess ==
    \/ \E h \in AllHandlers : OpenScan(h) /\ NoCallFails
    \/ \E h \in AllHandlers : ScanEvent(h) /\ NoCallFails
    \/ \E h \in AllHandlers : CloseScan(h) /\ NoCallFails
    \/ KeepalivesEvent /\ NoCallFails
    \/ KeepalivesEnd_ /\ NoCallFails
    \/ PeriodicEvent /\ NoCallFails
    \/ PeriodicEnd /\ NoCallFails
SpecSuccess == InitSuccess /\ [][NextSuccess]_vars /\ WF_vars(NextSuccess)

\* the step is a turn of a handler's own loop that did something
OwnTurn ==
    /\ run.h # "none"
    /\ run.nest.fn = "none"
    /\ last'.kind = "event"
    /\ last' # last \/ live' # live \/ cfg' # cfg

\* C31: when no collaborator call fails, a turn of a handler's loop consumes
\* exactly one event of the scan, the one just delivered, and makes its live
\* calls in that turn, on the entity of that event (so the calls follow the
\* delivery order of the events); the handler eventually returns SR_ERR_OK
\* with every iterator released.
C31_ScanEndsInSuccess ==
    /\ [][OwnTurn =>
            /\ run'.h = run.h
            /\ run'.n = run.n + 1
            /\ last'.h = run.h
            /\ \A i \in 1..Len(last'.calls) :
                  LET c == last'.calls[i]
                  IN \/ c.c = last'.ev.owner[1] /\ last'.ev.owner[2] \in {"", c.e}
                     \/ c.fn = "set_idle_timeout"
          ]_vars
    /\ (run.h # "none") ~> (run.h = "none" /\ ret = SR_ERR_OK /\ iters = 0)

\* a handler has returned success, its iterators released, after a scan of
\* several events that ended with a nested scan and its live call
C31_Witness ==
    /\ run.h = "none"
    /\ ret = SR_ERR_OK
    /\ iters = 0
    /\ last.kind = "nested"
    /\ last.calls # <<>>
    /\ AllOk(last.calls)

====
